---- MODULE Spec2Model ----
(***************************************************************************)
(* Model of the book-generation workflow engine:                           *)
(*   - the outline parser   (backend/api_interactive.py)                   *)
(*   - the resilient generation call (src/services/llm_service.py)         *)
(*   - the stage gate       (src/core/state_machine.py)                    *)
(*   - the orchestrators    (workflows/*.py)                               *)
(* Three specifications share the variables: SpecParse (outline parser),   *)
(* SpecRetry (_call_with_retry) and Spec (stage gate + orchestrators).     *)
(* Each specification holds the variables of the other two fixed.          *)
(***************************************************************************)
EXTENDS Integers, Sequences, FiniteSets, TLC

VARIABLES
    \* ---- outline parser (parse_outline_chapters, api_interactive.py) ----
    outline_text,     \* the lines of the outline, each a sequence of tokens
    expected_count,   \* the requested number of chapters
    line_idx,         \* position of the for-loop over lines (1-based)
    chapters_acc,     \* the list `chapters` while scanning: [number, title]
    seen_numbers,     \* the set `seen_numbers`
    parsed,           \* the returned list
    ppc,              \* "scan" | "post" | "done"
    \* ---- generation client (_call_with_retry, llm_service.py) ----
    max_retries,      \* the max_retries argument
    attempt,          \* the loop variable `attempt` (0-based)
    calls_made,       \* number of model.generate_content calls so far
    sleeps,           \* the delays passed to time.sleep, in order
    errors_seen,      \* the error messages of the failed attempts, in order
    rpc,              \* "call" | "returned" | "raised"
    raised,           \* what was raised: NULL, or the exception's message
    \* ---- persisted records and the last orchestrator call ----
    book,             \* the Book record
    chapters,         \* the chapter table of the book, in creation order (index = id)
    last,             \* the last call: its arguments, what it returned, the generation
                      \* calls it made, the notifications it fired, the log entries it appended
    \* ---- interactive API (api_interactive.py) ----
    workflow_states,  \* the entry of the book in the in-memory dict workflow_states
    response,         \* what the last request handed back
    \* ---- concurrent invocations of OutlineWorkflow.generate_outline ----
    runs              \* per invocation: its position and its local variables

parseVars == <<outline_text, expected_count, line_idx, chapters_acc, seen_numbers, parsed, ppc>>
retryVars == <<max_retries, attempt, calls_made, sleeps, errors_seen, rpc, raised>>
wfVars == <<book, chapters, last>>
apiVars == <<workflow_states, response>>
raceVars == <<runs>>
vars == <<parseVars, retryVars, wfVars, apiVars, raceVars>>

NULL == "NULL"

(***************************************************************************)
(* Bounds of the model                                                     *)
(***************************************************************************)
MaxLines == 3
MaxExpected == 3

(***************************************************************************)
(* Text as token sequences.  A line is a sequence of tokens; a token is a  *)
(* word, one blank, one digit or one punctuation mark.                     *)
(***************************************************************************)
Digits == <<"0", "1", "2", "3", "4", "5", "6", "7", "8", "9">>

IsSpace(t) == t = " "

IsDigit(t) == \E d \in 1..10 : Digits[d] = t

DigitVal(t) == (CHOOSE d \in 1..10 : Digits[d] = t) - 1

\* str.lower() on one token
Lower(t) ==
    CASE t \in {"Chapter", "CHAPTER", "chapter"} -> "chapter"
      [] t \in {"Description:", "description:"} -> "description:"
      [] t \in {"[Chapter Title Here]", "[chapter title here]"} -> "[chapter title here]"
      [] t \in {"Quota Exceeded", "quota exceeded"} -> "quota exceeded"
      [] OTHER -> t

RECURSIVE LStrip(_)
LStrip(s) == IF s # <<>> /\ IsSpace(Head(s)) THEN LStrip(Tail(s)) ELSE s

RECURSIVE RStrip(_)
RStrip(s) ==
    IF s # <<>> /\ IsSpace(s[Len(s)]) THEN RStrip(SubSeq(s, 1, Len(s) - 1)) ELSE s

\* str.strip()
Strip(s) == RStrip(LStrip(s))

\* first position >= i of s whose token is not a blank (Len(s)+1 if none)
RECURSIVE SkipSpaces(_, _)
SkipSpaces(s, i) == IF i <= Len(s) /\ IsSpace(s[i]) THEN SkipSpaces(s, i + 1) ELSE i

\* first position >= i of s whose token is not a digit (Len(s)+1 if none)
RECURSIVE SkipDigits(_, _)
SkipDigits(s, i) == IF i <= Len(s) /\ IsDigit(s[i]) THEN SkipDigits(s, i + 1) ELSE i

\* int() of a run of digit tokens
RECURSIVE ToInt(_)
ToInt(ds) ==
    IF ds = <<>> THEN 0 ELSE 10 * ToInt(SubSeq(ds, 1, Len(ds) - 1)) + DigitVal(ds[Len(ds)])

\* str(i) as digit tokens
RECURSIVE ToDigits(_)
ToDigits(n) == IF n < 10 THEN <<Digits[n + 1]>> ELSE ToDigits(n \div 10) \o <<Digits[(n % 10) + 1]>>

(***************************************************************************)
(* re.match(r'^Chapter\s+(\d+)\s*:\s*(.+)$', line, re.IGNORECASE)          *)
(* The character classes of the pattern are disjoint and the line has been *)
(* stripped, so the greedy match is the only one.                          *)
(***************************************************************************)
AfterWord(s) == SkipSpaces(s, 2)

AfterNumber(s) == SkipDigits(s, AfterWord(s))

ColonAt(s) == SkipSpaces(s, AfterNumber(s))

TitleAt(s) == SkipSpaces(s, ColonAt(s) + 1)

HeadingMatch(s) ==
    /\ Len(s) >= 1
    /\ Lower(s[1]) = "chapter"
    /\ AfterWord(s) > 2
    /\ AfterNumber(s) > AfterWord(s)
    /\ ColonAt(s) <= Len(s)
    /\ s[ColonAt(s)] = ":"
    /\ TitleAt(s) <= Len(s)

\* int(match.group(1))
MatchNumber(s) == ToInt(SubSeq(s, AfterWord(s), AfterNumber(s) - 1))

\* match.group(2).strip()
MatchTitle(s) == Strip(SubSeq(s, TitleAt(s), Len(s)))

\* "[chapter title here]" in chapter_title.lower() or chapter_title == ""
IsPlaceholder(title) ==
    \/ \E i \in 1..Len(title) : Lower(title[i]) = "[chapter title here]"
    \/ title = <<>>

\* start of the blanks that end just before position j
RECURSIVE BlanksBefore(_, _)
BlanksBefore(s, j) == IF j > 1 /\ IsSpace(s[j - 1]) THEN BlanksBefore(s, j - 1) ELSE j

\* re.sub(r'\s*Description:.*$', '', chapter_title, flags=re.IGNORECASE)
CleanTitle(title) ==
    LET hits == {j \in 1..Len(title) : Lower(title[j]) = "description:"} IN
    IF hits = {} THEN title
    ELSE LET j == CHOOSE j \in hits : \A k \in hits : j <= k
         IN SubSeq(title, 1, BlanksBefore(title, j) - 1)

\* chapters.sort(key=lambda x: x["number"]): a stable insertion sort
RECURSIVE InsertByNumber(_, _)
InsertByNumber(e, s) ==
    IF s = <<>> THEN <<e>>
    ELSE IF e.number < Head(s).number THEN <<e>> \o s
    ELSE <<Head(s)>> \o InsertByNumber(e, Tail(s))

SortByNumber_Unsorted(s) == s

RECURSIVE SortByNumber(_)
SortByNumber(s) ==
    IF s = <<>> THEN <<>>
    ELSE InsertByNumber(s[Len(s)], SortByNumber(SubSeq(s, 1, Len(s) - 1)))

\* chapters[:expected_count]
Truncate(s, n) == SubSeq(s, 1, IF n < Len(s) THEN n ELSE Len(s))

Renumber_KeepParsed(s) == s

\* for idx, chapter in enumerate(chapters, start=1): chapter["number"] = idx
Renumber(s) == [i \in 1..Len(s) |-> [number |-> i, title |-> s[i].title]]

DefaultChapters_OffByOne(n) ==
    [i \in 1..n |-> [number |-> i - 1, title |-> <<"Chapter", " ">> \o ToDigits(i - 1)]]

\* [{"number": i, "title": f"Chapter {i}"} for i in range(1, expected_count + 1)]
DefaultChapters(n) ==
    [i \in 1..n |-> [number |-> i, title |-> <<"Chapter", " ">> \o ToDigits(i)]]

(***************************************************************************)
(* parse_outline_chapters(outline_text, expected_count), one loop          *)
(* iteration per step.                                                     *)
(***************************************************************************)
\* The lines an outline is made of.
Lines ==
    { <<"Chapter", " ", "1", ":", " ", "Intro">>,
      <<"Chapter", " ", "2", ":", " ", "Basics">>,
      <<" ", "chapter", " ", "1", ":", "Again", " ">>,
      <<"CHAPTER", " ", "0", "3", " ", ":", " ", "Deep", " ", "Description:", " ", "more">>,
      <<"Chapter", " ", "3", ":", " ", "[Chapter Title Here]">>,
      <<"Chapter", " ", "2", ":", " ", "Description:", " ", "only">>,
      <<"In", " ", "this", " ", "chapter", " ", "2", ":", " ", "more">>,
      <<"Chapter", " ", "4", " ", "-", " ", "Dash">>,
      <<>> }

OutlineTexts == UNION { [1..n -> Lines] : n \in 0..MaxLines }

\* line = line.strip()
CurLine == Strip(outline_text[line_idx])

ParseInit ==
    /\ outline_text \in OutlineTexts
    /\ expected_count \in 0..MaxExpected
    /\ line_idx = 1
    /\ chapters_acc = <<>>
    /\ seen_numbers = {}
    /\ parsed = <<>>
    /\ ppc = "scan"

Scanning == ppc = "scan" /\ line_idx <= Len(outline_text)

NextLine ==
    /\ line_idx' = line_idx + 1
    /\ UNCHANGED <<outline_text, expected_count, parsed, ppc>>

\* the line does not match the heading pattern
ScanNoMatch ==
    /\ Scanning
    /\ ~HeadingMatch(CurLine)
    /\ NextLine
    /\ UNCHANGED <<chapters_acc, seen_numbers>>
    /\ UNCHANGED <<retryVars, wfVars, apiVars, raceVars>>

\* if chapter_num in seen_numbers: continue
ScanDuplicate_Keep ==
    /\ Scanning
    /\ HeadingMatch(CurLine)
    /\ MatchNumber(CurLine) \in seen_numbers
    /\ NextLine
    /\ chapters_acc' = Append(chapters_acc,
            [number |-> MatchNumber(CurLine), title |-> CleanTitle(MatchTitle(CurLine))])
    /\ UNCHANGED seen_numbers
    /\ UNCHANGED <<retryVars, wfVars, apiVars, raceVars>>

ScanDuplicate ==
    /\ Scanning
    /\ HeadingMatch(CurLine)
    /\ MatchNumber(CurLine) \in seen_numbers
    /\ NextLine
    /\ UNCHANGED <<chapters_acc, seen_numbers>>
    /\ UNCHANGED <<retryVars, wfVars, apiVars, raceVars>>

\* if "[chapter title here]" in chapter_title.lower() or chapter_title == "": continue
ScanPlaceholder ==
    /\ Scanning
    /\ HeadingMatch(CurLine)
    /\ MatchNumber(CurLine) \notin seen_numbers
    /\ IsPlaceholder(MatchTitle(CurLine))
    /\ NextLine
    /\ UNCHANGED <<chapters_acc, seen_numbers>>
    /\ UNCHANGED <<retryVars, wfVars, apiVars, raceVars>>

\* the heading is accepted; if len(chapters) >= expected_count: break
ScanAccept ==
    /\ Scanning
    /\ HeadingMatch(CurLine)
    /\ MatchNumber(CurLine) \notin seen_numbers
    /\ ~IsPlaceholder(MatchTitle(CurLine))
    /\ seen_numbers' = seen_numbers \cup {MatchNumber(CurLine)}
    /\ chapters_acc' = Append(chapters_acc,
            [number |-> MatchNumber(CurLine), title |-> CleanTitle(MatchTitle(CurLine))])
    /\ IF Len(chapters_acc') >= expected_count
       THEN ppc' = "post" /\ line_idx' = line_idx
       ELSE ppc' = "scan" /\ line_idx' = line_idx + 1
    /\ UNCHANGED <<outline_text, expected_count, parsed>>
    /\ UNCHANGED <<retryVars, wfVars, apiVars, raceVars>>

\* the for-loop has run out of lines
ScanEnd ==
    /\ ppc = "scan"
    /\ line_idx > Len(outline_text)
    /\ ppc' = "post"
    /\ UNCHANGED <<outline_text, expected_count, line_idx, chapters_acc, seen_numbers, parsed>>
    /\ UNCHANGED <<retryVars, wfVars, apiVars, raceVars>>

\* sort, truncate, renumber, and the defaults when nothing was found
ParseFinish ==
    /\ ppc = "post"
    /\ LET kept == Renumber(Truncate(SortByNumber(chapters_acc), expected_count))
       IN parsed' = IF kept = <<>> THEN DefaultChapters(expected_count) ELSE kept
    /\ ppc' = "done"
    /\ UNCHANGED <<outline_text, expected_count, line_idx, chapters_acc, seen_numbers>>
    /\ UNCHANGED <<retryVars, wfVars, apiVars, raceVars>>

ParseNext ==
    \/ ScanNoMatch
    \/ ScanDuplicate
    \/ ScanPlaceholder
    \/ ScanAccept
    \/ ScanEnd
    \/ ParseFinish

(***************************************************************************)
(* LLMService._call_with_retry(prompt, max_retries), one attempt per step. *)
(* Delays are counted in tenths of a second.                               *)
(***************************************************************************)
MaxRetriesArg == 4

\* The messages str(e) of the exceptions model.generate_content raises.
ErrorMessages ==
    { <<"429", " ", "Resource", " ", "exhausted">>,
      <<"429", " ", "retry", " ", "in", " ", "2", ".", "5", "s">>,
      <<"Quota Exceeded", " ", "retry", " ", "in", " ", "7", "s">>,
      <<"quota exceeded", " ", "Retry", " ", "in", " ", "9", "s">>,
      <<"429", " ", "retry", " ", "in", " ", "3", " ", "seconds">>,
      <<"429", " ", "retry", " ", "in", " ", ".", "s">>,
      <<"500", " ", "internal", " ", "retry", " ", "in", " ", "3", "s">>,
      <<"timeout">> }

\* "429" in error_msg or "quota exceeded" in error_msg.lower()
IsRateLimit(msg) ==
    \/ \E i \in 1..Len(msg) : msg[i] = "429"
    \/ \E i \in 1..Len(msg) : Lower(msg[i]) = "quota exceeded"

IsNumChar(t) == IsDigit(t) \/ t = "."

RECURSIVE SkipNumChars(_, _)
SkipNumChars(s, i) == IF i <= Len(s) /\ IsNumChar(s[i]) THEN SkipNumChars(s, i + 1) ELSE i

\* the positions where r'retry in ([\d.]+)s' matches (the pattern is case-sensitive)
RetryMatches(msg) ==
    { p \in 1..Len(msg) :
        /\ p + 5 <= Len(msg)
        /\ msg[p] = "retry" /\ msg[p + 1] = " " /\ msg[p + 2] = "in" /\ msg[p + 3] = " "
        /\ SkipNumChars(msg, p + 4) > p + 4
        /\ SkipNumChars(msg, p + 4) <= Len(msg)
        /\ msg[SkipNumChars(msg, p + 4)] \in {"s", "seconds"} }

HasRetryMatch(msg) == RetryMatches(msg) # {}

\* retry_match.group(1) of re.search: the leftmost match
RetryGroup(msg) ==
    LET p == CHOOSE p \in RetryMatches(msg) : \A q \in RetryMatches(msg) : p <= q
    IN SubSeq(msg, p + 4, SkipNumChars(msg, p + 4) - 1)

\* float(text) succeeds: at least one digit and at most one point
FloatOk(text) ==
    /\ \E i \in 1..Len(text) : IsDigit(text[i])
    /\ Cardinality({i \in 1..Len(text) : text[i] = "."}) <= 1

\* float(text) in tenths, for a text with at most one digit after the point
FloatTenths(text) ==
    LET dots == {i \in 1..Len(text) : text[i] = "."} IN
    IF dots = {} THEN 10 * ToInt(text)
    ELSE LET d == CHOOSE d \in dots : TRUE
         IN 10 * ToInt(SubSeq(text, 1, d - 1))
              + (IF d < Len(text) THEN DigitVal(text[d + 1]) ELSE 0)

\* (2 ** attempt) * 5 seconds
Backoff(a) == (2 ^ a) * 50

\* retry_delay of lines 46-51, where float() succeeds
RetryDelay(msg, a) ==
    IF HasRetryMatch(msg) THEN FloatTenths(RetryGroup(msg)) ELSE Backoff(a)

RATE_LIMIT_ERROR == "API rate limit exceeded"
MAX_RETRIES_ERROR == "Failed after maximum retries"

RetryInit ==
    /\ max_retries \in 0..MaxRetriesArg
    /\ attempt = 0
    /\ calls_made = 0
    /\ sleeps = <<>>
    /\ errors_seen = <<>>
    /\ rpc = "call"
    /\ raised = NULL

InLoop == rpc = "call" /\ attempt < max_retries

\* response = self.model.generate_content(prompt); return response.text
AttemptSucceeds ==
    /\ InLoop
    /\ calls_made' = calls_made + 1
    /\ rpc' = "returned"
    /\ UNCHANGED <<max_retries, attempt, sleeps, errors_seen, raised>>
    /\ UNCHANGED <<parseVars, wfVars, apiVars, raceVars>>

\* the attempt fails with a rate-limit message: sleep and continue, or give up
AttemptRateLimited(msg) ==
    /\ InLoop
    /\ IsRateLimit(msg)
    /\ calls_made' = calls_made + 1
    /\ errors_seen' = Append(errors_seen, msg)
    /\ IF HasRetryMatch(msg) /\ ~FloatOk(RetryGroup(msg))
       THEN \* float() raises inside the handler
            rpc' = "raised" /\ raised' = "ValueError" /\ UNCHANGED <<attempt, sleeps>>
       ELSE IF attempt < max_retries - 1
       THEN /\ sleeps' = Append(sleeps, RetryDelay(msg, attempt))
            /\ attempt' = attempt + 1
            /\ UNCHANGED <<rpc, raised>>
       ELSE /\ rpc' = "raised"
            /\ raised' = RATE_LIMIT_ERROR
            /\ UNCHANGED <<attempt, sleeps>>
    /\ UNCHANGED max_retries
    /\ UNCHANGED <<parseVars, wfVars, apiVars, raceVars>>

AttemptFailsOther_Retry(msg) ==
    /\ InLoop
    /\ ~IsRateLimit(msg)
    /\ calls_made' = calls_made + 1
    /\ errors_seen' = Append(errors_seen, msg)
    /\ IF attempt < max_retries - 1
       THEN attempt' = attempt + 1 /\ UNCHANGED <<rpc, raised>>
       ELSE rpc' = "raised" /\ raised' = "original" /\ UNCHANGED attempt
    /\ UNCHANGED <<max_retries, sleeps>>
    /\ UNCHANGED <<parseVars, wfVars, apiVars, raceVars>>

\* any other failure: raise (the original exception)
AttemptFailsOther(msg) ==
    /\ InLoop
    /\ ~IsRateLimit(msg)
    /\ calls_made' = calls_made + 1
    /\ errors_seen' = Append(errors_seen, msg)
    /\ rpc' = "raised"
    /\ raised' = "original"
    /\ UNCHANGED <<max_retries, attempt, sleeps>>
    /\ UNCHANGED <<parseVars, wfVars, apiVars, raceVars>>

\* the loop body never ran: raise Exception("Failed after maximum retries")
LoopExhausted ==
    /\ rpc = "call"
    /\ attempt >= max_retries
    /\ rpc' = "raised"
    /\ raised' = MAX_RETRIES_ERROR
    /\ UNCHANGED <<max_retries, attempt, calls_made, sleeps, errors_seen>>
    /\ UNCHANGED <<parseVars, wfVars, apiVars, raceVars>>

RetryNext ==
    \/ AttemptSucceeds
    \/ \E msg \in ErrorMessages : AttemptRateLimited(msg)
    \/ \E msg \in ErrorMessages : AttemptFailsOther(msg)
    \/ LoopExhausted

(***************************************************************************)
(* Records.  Optional text fields hold NULL, the empty string or a text.   *)
(***************************************************************************)
\* Python truthiness of an optional string
Truthy(x) == x # NULL /\ x # ""

\* The outlines the generation client returns, by name, and their lines.
Outlines == {"OutDense", "OutGap"}

OutlineLines(o) ==
    CASE o = "OutDense" ->
            << <<"Chapter", " ", "1", ":", " ", "Intro">>,
               <<"Some", " ", "prose", ".">>,
               <<"Chapter", " ", "2", ":", " ", "Basics">> >>
      [] o = "OutGap" ->
            << <<"Chapter", " ", "1", ":", " ", "Intro">>,
               <<" ", "chapter", " ", "1", ":", "Again", " ">>,
               <<"Chapter", " ", "4", " ", "-", " ", "Dash">>,
               <<"CHAPTER", " ", "0", "3", " ", ":", " ", "Deep", " ", "Description:", " ", "more">> >>
      [] OTHER -> << >>

\* the text the generation client returns for a chapter (one text stands for all;
\* the notes a generation call was given are kept with the call in `last.calls`)
ChapterText(notes) == "text"

\* the summary the generation client returns for a chapter text
SummaryOf(content) == "summary"

\* get_chapters_by_book: .order('chapter_number'), a stable insertion sort
RECURSIVE InsertChapter(_, _)
InsertChapter(c, s) ==
    IF s = <<>> THEN <<c>>
    ELSE IF c.chapter_number < Head(s).chapter_number THEN <<c>> \o s
    ELSE <<Head(s)>> \o InsertChapter(c, Tail(s))

RECURSIVE get_chapters_by_book(_)
get_chapters_by_book(chs) ==
    IF chs = <<>> THEN <<>>
    ELSE InsertChapter(chs[Len(chs)], get_chapters_by_book(SubSeq(chs, 1, Len(chs) - 1)))

\* next((c for c in chapters if c.chapter_number == n), None): its id, 0 for None
FindChapter(chs, n) ==
    LET sorted == get_chapters_by_book(chs)
        hits == {i \in 1..Len(sorted) : sorted[i].chapter_number = n}
    IN IF hits = {} THEN 0
       ELSE sorted[CHOOSE i \in hits : \A j \in hits : i <= j].id

(***************************************************************************)
(* Stage gate (src/core/state_machine.py)                                  *)
(***************************************************************************)
can_generate_chapter_NoPredecessorCheck(b, chs, n) ==
    IF ~Truthy(b.outline) THEN [ok |-> FALSE, reason |-> "no_outline"]
    ELSE [ok |-> TRUE, reason |-> "OK"]

can_generate_chapter(b, chs, n) ==
    IF ~Truthy(b.outline) THEN [ok |-> FALSE, reason |-> "no_outline"]
    ELSE IF n > 1 /\ (FindChapter(chs, n - 1) = 0
                      \/ ~Truthy(chs[FindChapter(chs, n - 1)].content))
         THEN [ok |-> FALSE, reason |-> "previous_incomplete"]
    ELSE [ok |-> TRUE, reason |-> "OK"]

\* [c.chapter_number for c in chapters if not c.content]
RECURSIVE IncompleteNumbers(_)
IncompleteNumbers(s) ==
    IF s = <<>> THEN <<>>
    ELSE (IF Truthy(Head(s).content) THEN <<>> ELSE <<Head(s).chapter_number>>)
            \o IncompleteNumbers(Tail(s))

\* the values of final_review_notes_status the gate tells apart
\* (unset, empty, YES, NO, NO_NOTES_NEEDED, anything else)
FinalReviewValues == {NULL, "", "yes", "no", "no_notes_needed", "other"}

CompileDecision_UnsetAllowed(b, chs, incomplete) ==
    IF chs = <<>> THEN [ok |-> FALSE, reason |-> "no_chapters", detail |-> <<>>]
    ELSE IF incomplete # <<>>
    THEN [ok |-> FALSE, reason |-> "chapters_incomplete", detail |-> incomplete]
    ELSE IF b.final_review_notes_status = "yes"
    THEN [ok |-> FALSE, reason |-> "waiting_final_review", detail |-> <<>>]
    ELSE [ok |-> TRUE, reason |-> "ready", detail |-> <<>>]

\* can_compile_final_draft once the chapters are read and the incomplete ones listed;
\* detail is the list the reason f"Chapters incomplete: {incomplete}" prints
CompileDecision(b, chs, incomplete) ==
    IF chs = <<>> THEN [ok |-> FALSE, reason |-> "no_chapters", detail |-> <<>>]
    ELSE IF incomplete # <<>>
    THEN [ok |-> FALSE, reason |-> "chapters_incomplete", detail |-> incomplete]
    ELSE IF ~Truthy(b.final_review_notes_status)
    THEN [ok |-> FALSE, reason |-> "final_review_not_set", detail |-> <<>>]
    ELSE IF b.final_review_notes_status = "yes"
    THEN [ok |-> FALSE, reason |-> "waiting_final_review", detail |-> <<>>]
    ELSE IF b.final_review_notes_status \in {"no_notes_needed", "no"}
    THEN [ok |-> TRUE, reason |-> "ready", detail |-> <<>>]
    ELSE [ok |-> FALSE, reason |-> "invalid_status", detail |-> <<>>]

can_compile_final_draft_IgnoresContent(b, chs) ==
    CompileDecision(b, chs, <<>>)

can_compile_final_draft(b, chs) ==
    CompileDecision(b, chs, IncompleteNumbers(get_chapters_by_book(chs)))

should_wait_for_chapter_notes_YesNeverWaits(b, chs, n) ==
    IF ~Truthy(b.chapter_notes_status) THEN TRUE
    ELSE IF b.chapter_notes_status = "yes" THEN FALSE
    ELSE IF b.chapter_notes_status = "no_notes_needed" THEN FALSE
    ELSE TRUE

should_wait_for_chapter_notes(b, chs, n) ==
    IF ~Truthy(b.chapter_notes_status) THEN TRUE
    ELSE IF b.chapter_notes_status = "yes"
         THEN FindChapter(chs, n) # 0 /\ ~Truthy(chs[FindChapter(chs, n)].chapter_notes)
    ELSE IF b.chapter_notes_status = "no_notes_needed" THEN FALSE
    ELSE TRUE

(***************************************************************************)
(* Chapter Workflow (workflows/chapter_workflow.py)                        *)
(***************************************************************************)
\* 'chapter' in line.lower()
MentionsChapter(line) ==
    \E i \in 1..Len(line) : Lower(line[i]) \in {"chapter", "[chapter title here]"}

\* the tokens that hold a ':' (it is their last character)
HasColon(t) == t \in {":", "Description:", "description:"}

\* position of the token holding the first ':' of the line, 0 if there is none
FirstColon(line) ==
    LET hits == {i \in 1..Len(line) : HasColon(line[i])}
    IN IF hits = {} THEN 0 ELSE CHOOSE i \in hits : \A j \in hits : i <= j

\* ''.join(filter(str.isdigit, parts[0]))
RECURSIVE DigitsOf(_)
DigitsOf(s) ==
    IF s = <<>> THEN <<>>
    ELSE (IF IsDigit(Head(s)) THEN <<Head(s)>> ELSE <<>>) \o DigitsOf(Tail(s))

\* the (chapter_num, chapter_title) a line contributes, as a list of 0 or 1 pairs
WfParseLine(raw) ==
    LET line == Strip(raw)
        c == FirstColon(line)
        num_str == DigitsOf(SubSeq(line, 1, c - 1))
    IN IF MentionsChapter(line) /\ c # 0 /\ num_str # <<>>
       THEN << [chapter_number |-> ToInt(num_str),
                chapter_title |-> Strip(SubSeq(line, c + 1, Len(line)))] >>
       ELSE << >>

RECURSIVE WfParseLines(_)
WfParseLines(lines) ==
    IF lines = <<>> THEN <<>> ELSE WfParseLine(Head(lines)) \o WfParseLines(Tail(lines))

DEFAULT_CHAPTERS == 10

\* ChapterWorkflow.parse_outline_chapters(outline)
WfParseOutline(lines) ==
    IF WfParseLines(lines) # <<>> THEN WfParseLines(lines)
    ELSE [i \in 1..DEFAULT_CHAPTERS |->
            [chapter_number |-> i, chapter_title |-> <<"Chapter", " ">> \o ToDigits(i)]]

\* Chapter(book_id, chapter_number, chapter_title, status=PENDING) as stored
NewChapter(id, e) ==
    [id |-> id, chapter_number |-> e.chapter_number, chapter_title |-> e.chapter_title,
     content |-> NULL, summary |-> NULL, chapter_notes |-> NULL, status |-> "pending"]

\* what a call hands back: the records as it leaves them and its observable effects
Result(b, chs, ok, reason, calls, notified, logged) ==
    [book |-> b, chapters |-> chs, ok |-> ok, reason |-> reason,
     calls |-> calls, notified |-> notified, logged |-> logged]

\* ChapterWorkflow.initialize_chapters(book_id)
initialize_chapters(b, chs) ==
    IF ~Truthy(b.outline) THEN Result(b, chs, FALSE, "no_outline", <<>>, <<>>, <<>>)
    ELSE IF chs # <<>> THEN Result(b, chs, TRUE, "already_exist", <<>>, <<>>, <<>>)
    ELSE LET list == WfParseOutline(OutlineLines(b.outline))
         IN Result(b, [i \in 1..Len(list) |-> NewChapter(i, list[i])],
                   TRUE, "initialized", <<>>, <<>>, <<>>)

\* The ways one generate_chapter call can end after its gate has passed.
Outcomes == {"ok", "llm_error", "persist_error", "summary_error"}

\* generate_chapter once the gate has passed, on the chapter record `id`
\* (lines 145-202): the writes, the generation calls and the except clause
GenerateChapterAt(b, chs, n, oc, id) ==
    CASE oc \in {"llm_error", "persist_error"} ->
           \* status GENERATING, stage CHAPTER_GENERATION, log; the generation call or
           \* the content write raises; except: update_book_status(ERROR)
           Result([b EXCEPT !.book_output_status = "error"],
                  [chs EXCEPT ![id].status = "generating"],
                  FALSE, "error",
                  <<[kind |-> "chapter", n |-> n, notes |-> chs[id].chapter_notes]>>,
                  <<>>, <<"generation_started">>)
      [] oc = "summary_error" ->
           \* content and status REVIEW are stored; generate_and_store_summary raises
           Result([b EXCEPT !.book_output_status = "error"],
                  [chs EXCEPT ![id].content = ChapterText(chs[id].chapter_notes),
                              ![id].status = "review"],
                  FALSE, "error",
                  <<[kind |-> "chapter", n |-> n, notes |-> chs[id].chapter_notes],
                    [kind |-> "summary", n |-> n, notes |-> NULL]>>,
                  <<>>, <<"generation_started">>)
      [] OTHER ->
           Result([b EXCEPT !.book_output_status = "chapter_generation"],
                  [chs EXCEPT ![id].content = ChapterText(chs[id].chapter_notes),
                              ![id].status = "review",
                              ![id].summary = SummaryOf(ChapterText(chs[id].chapter_notes))],
                  TRUE, "generated",
                  <<[kind |-> "chapter", n |-> n, notes |-> chs[id].chapter_notes],
                    [kind |-> "summary", n |-> n, notes |-> NULL]>>,
                  <<>>, <<"generation_started", "generation_completed">>)

\* generate_chapter after the gate check `gate` and the chapter lookup `id`
GenerateChapterGated(b, chs, n, oc, gate, id) ==
    IF ~gate.ok THEN Result(b, chs, FALSE, gate.reason, <<>>, <<>>, <<>>)
    ELSE IF id = 0 THEN Result(b, chs, FALSE, "not_found", <<>>, <<>>, <<>>)
    ELSE GenerateChapterAt(b, chs, n, oc, id)

generate_chapter_NoGate(b, chs, n, oc) ==
    GenerateChapterGated(b, chs, n, oc, [ok |-> TRUE, reason |-> "OK"], FindChapter(chs, n))

\* ChapterWorkflow.generate_chapter(book_id, chapter_number)
generate_chapter(b, chs, n, oc) ==
    GenerateChapterGated(b, chs, n, oc, can_generate_chapter(b, chs, n), FindChapter(chs, n))

\* regenerate_chapter after its generate_chapter call handed back r (lines 316-321)
RegenerateFinish(id, r) ==
    Result(r.book,
           \* if success: update_chapter_status(chapter.id, APPROVED)
           IF r.ok THEN [r.chapters EXCEPT ![id].status = "approved"] ELSE r.chapters,
           r.ok, r.reason, r.calls, r.notified, <<"regeneration_started">> \o r.logged)

RegenerateChapterAt_NoNotesWrite(b, chs, n, notes, oc, id) ==
    IF id = 0 THEN Result(b, chs, FALSE, "not_found", <<>>, <<>>, <<>>)
    ELSE RegenerateFinish(id,
            generate_chapter(b, [chs EXCEPT ![id].status = "regenerating"], n, oc))

\* regenerate_chapter on the chapter record `id` (lines 295-321)
RegenerateChapterAt(b, chs, n, notes, oc, id) ==
    IF id = 0 THEN Result(b, chs, FALSE, "not_found", <<>>, <<>>, <<>>)
    ELSE RegenerateFinish(id,
            \* update_chapter({'chapter_notes': notes, 'status': REGENERATING}); log;
            \* generate_chapter(book_id, chapter_number)
            generate_chapter(b,
                [chs EXCEPT ![id].chapter_notes = notes, ![id].status = "regenerating"],
                n, oc))

\* ChapterWorkflow.regenerate_chapter(book_id, chapter_number, notes)
regenerate_chapter(b, chs, n, notes, oc) ==
    RegenerateChapterAt(b, chs, n, notes, oc, FindChapter(chs, n))

NoStop == 0 - 1

\* what generate_all_chapters has done so far, after a generate_chapter call gave r
Absorb(st, r) ==
    [st EXCEPT !.book = r.book, !.chapters = r.chapters,
               !.calls = @ \o r.calls, !.notified = @ \o r.notified,
               !.logged = @ \o r.logged]

\* lines 251-256: count the success, or record the failure and break
\* (stopped_at keeps the chapter at which the loop first stopped)
GenAllAfter(st, n, r) ==
    IF r.ok THEN [Absorb(st, r) EXCEPT !.success_count = @ + 1]
    ELSE [Absorb(st, r) EXCEPT !.failed = Append(@, n),
                               !.stopped_at = IF @ = NoStop THEN n ELSE @]

GenAllStep_NoSkip(st, c, oc) ==
    IF should_wait_for_chapter_notes(st.book, st.chapters, c.chapter_number)
    THEN [st EXCEPT !.notified = Append(@, "waiting_for_chapter_notes"),
                    !.stopped_at = IF @ = NoStop THEN c.chapter_number ELSE @]
    ELSE GenAllAfter([st EXCEPT !.gen_calls = @ + 1], c.chapter_number,
                     generate_chapter(st.book, st.chapters, c.chapter_number, oc))

\* one iteration of the loop of generate_all_chapters on list entry c (lines 227-256);
\* oc is how a generate_chapter call made in this iteration ends
GenAllStep(st, c, oc) ==
    IF Truthy(c.content)
    THEN \* already generated, skipping
         [st EXCEPT !.success_count = @ + 1]
    ELSE IF should_wait_for_chapter_notes(st.book, st.chapters, c.chapter_number)
    THEN \* notify_waiting_for_chapter_notes; break
         [st EXCEPT !.notified = Append(@, "waiting_for_chapter_notes"),
                    !.stopped_at = IF @ = NoStop THEN c.chapter_number ELSE @]
    ELSE GenAllAfter([st EXCEPT !.gen_calls = @ + 1], c.chapter_number,
                     generate_chapter(st.book, st.chapters, c.chapter_number, oc))

RECURSIVE GenAllLoop_NoBreak(_, _, _, _, _)
GenAllLoop_NoBreak(st, snap, i, failAt, kind) ==
    IF i > Len(snap) THEN st
    ELSE GenAllLoop_NoBreak(
            GenAllStep(st, snap[i], IF st.gen_calls + 1 = failAt THEN kind ELSE "ok"),
            snap, i + 1, failAt, kind)

\* The loop over the chapter list `snap` read before the loop, from position i on;
\* the failAt-th generate_chapter call of the invocation ends as `kind`.
RECURSIVE GenAllLoop(_, _, _, _, _)
GenAllLoop(st, snap, i, failAt, kind) ==
    IF i > Len(snap) \/ st.stopped_at # NoStop THEN st
    ELSE GenAllLoop(GenAllStep(st, snap[i], IF st.gen_calls + 1 = failAt THEN kind ELSE "ok"),
                    snap, i + 1, failAt, kind)

WithStop(r, stopped_at) == r @@ [stopped_at |-> stopped_at]

\* lines 258-269: what generate_all_chapters returns after the loop left st
GenAllFinish(st) ==
    IF st.failed # <<>>
    THEN WithStop(Result(st.book, st.chapters, FALSE, "failed_chapters",
                         st.calls, st.notified, st.logged), st.stopped_at)
    ELSE IF \A i \in 1..Len(st.chapters) : Truthy(st.chapters[i].content)
    THEN WithStop(Result([st.book EXCEPT !.book_output_status = "final_compilation"],
                         st.chapters, TRUE, "all_generated",
                         st.calls, st.notified, st.logged), st.stopped_at)
    ELSE WithStop(Result(st.book, st.chapters, TRUE, "more_pending",
                         st.calls, st.notified, st.logged), st.stopped_at)

\* generate_all_chapters after initialize_chapters left the chapter table chs
GenAllFrom(b, chs, failAt, kind) ==
    IF chs = <<>>
    THEN WithStop(Result(b, chs, FALSE, "no_chapters", <<>>, <<>>, <<>>), NoStop)
    ELSE GenAllFinish(
            GenAllLoop([book |-> b, chapters |-> chs, calls |-> <<>>, notified |-> <<>>,
                        logged |-> <<>>, success_count |-> 0, failed |-> <<>>,
                        stopped_at |-> NoStop, gen_calls |-> 0],
                       get_chapters_by_book(chs), 1, failAt, kind))

\* ChapterWorkflow.generate_all_chapters(book_id)
generate_all_chapters(b, chs, failAt, kind) ==
    GenAllFrom(b, initialize_chapters(b, chs).chapters, failAt, kind)

(***************************************************************************)
(* The chapter pipeline as a state machine: one step per orchestrator call *)
(* or editor input (one workflow advances at a time per book).             *)
(***************************************************************************)
MaxChapterArg == 3

ChapterArgs == 0..MaxChapterArg

NoteValues == {"fix"}

GateValues == {"yes", "no", "no_notes_needed", "other"}

NoCall == [op |-> "none", n |-> 0, ok |-> TRUE, reason |-> "", calls |-> <<>>,
           notified |-> <<>>, logged |-> <<>>, stopped_at |-> NoStop, detail |-> <<>>,
           formats |-> {}, works |-> {}, attempted |-> <<>>, exported |-> <<>>]

\* `last` after a call of op with chapter argument n that handed back r
Called(op, n, r) ==
    [op |-> op, n |-> n, ok |-> r.ok, reason |-> r.reason, calls |-> r.calls,
     notified |-> r.notified, logged |-> r.logged,
     stopped_at |-> IF "stopped_at" \in DOMAIN r THEN r.stopped_at ELSE NoStop,
     \* what the call reports besides success and message
     detail |-> IF "detail" \in DOMAIN r THEN r.detail ELSE <<>>,
     \* the formats argument of a compile_book call, the formats whose export works,
     \* the exports the call tried, and those that produced a file
     formats |-> IF "formats" \in DOMAIN r THEN r.formats ELSE {},
     works |-> IF "works" \in DOMAIN r THEN r.works ELSE {},
     attempted |-> IF "attempted" \in DOMAIN r THEN r.attempted ELSE <<>>,
     exported |-> IF "exported" \in DOMAIN r THEN r.exported ELSE <<>>]

NewBook(outline) ==
    [outline |-> outline,
     notes_on_outline_before |-> NULL, notes_on_outline_after |-> NULL,
     status_outline_notes |-> NULL, chapter_notes_status |-> NULL,
     final_review_notes_status |-> NULL,
     book_output_status |-> IF outline = NULL THEN "pending" ELSE "outline_review"]

ChaptersInit ==
    /\ book \in {NewBook(o) : o \in {NULL} \cup Outlines}
    /\ chapters = <<>>
    /\ last = NoCall

Apply(op, n, r) ==
    /\ book' = r.book
    /\ chapters' = r.chapters
    /\ last' = Called(op, n, r)
    /\ UNCHANGED <<parseVars, retryVars, apiVars, raceVars>>

InitializeChapters ==
    /\ chapters' = initialize_chapters(book, chapters).chapters
    /\ last' = Called("initialize_chapters", 0, initialize_chapters(book, chapters))
    /\ UNCHANGED <<book, parseVars, retryVars, apiVars, raceVars>>

\* the call reaches the generation client: its gate passes and the chapter exists
Generates(n) == can_generate_chapter(book, chapters, n).ok /\ FindChapter(chapters, n) # 0

GenerateChapter(n, oc) ==
    /\ oc = "ok" \/ Generates(n)
    /\ Apply("generate_chapter", n, generate_chapter(book, chapters, n, oc))

GenerateAllChapters(failAt, kind) ==
    /\ failAt <= Len(initialize_chapters(book, chapters).chapters)
    /\ Apply("generate_all_chapters", 0, generate_all_chapters(book, chapters, failAt, kind))

RegenerateChapter(n, notes, oc) ==
    /\ oc = "ok" \/ Generates(n)
    /\ Apply("regenerate_chapter", n, regenerate_chapter(book, chapters, n, notes, oc))

\* the editor sets the chapter feedback gate of the book
EditorSetsChapterNotesStatus(v) ==
    /\ book' = [book EXCEPT !.chapter_notes_status = v]
    /\ last' = NoCall
    /\ UNCHANGED chapters
    /\ UNCHANGED <<parseVars, retryVars, apiVars, raceVars>>

\* the editor writes notes on a chapter record
EditorWritesChapterNotes(id, notes) ==
    /\ id \in 1..Len(chapters)
    /\ chapters' = [chapters EXCEPT ![id].chapter_notes = notes]
    /\ last' = NoCall
    /\ UNCHANGED book
    /\ UNCHANGED <<parseVars, retryVars, apiVars, raceVars>>

ChaptersNext ==
    \/ InitializeChapters
    \/ \E n \in ChapterArgs, oc \in Outcomes : GenerateChapter(n, oc)
    \/ \E failAt \in 0..MaxChapterArg, kind \in Outcomes \ {"ok"} : GenerateAllChapters(failAt, kind)
    \/ \E n \in ChapterArgs, notes \in NoteValues, oc \in Outcomes : RegenerateChapter(n, notes, oc)
    \/ \E v \in GateValues : EditorSetsChapterNotesStatus(v)
    \/ \E id \in 1..MaxChapterArg, notes \in NoteValues : EditorWritesChapterNotes(id, notes)

(***************************************************************************)
(* Outline gates (src/core/state_machine.py)                               *)
(***************************************************************************)
can_generate_outline_DeniesAfterError(b) ==
    IF b.book_output_status \in {"error", "paused"}
    THEN [ok |-> FALSE, reason |-> "notes_before_required"]
    ELSE IF ~Truthy(b.notes_on_outline_before)
    THEN [ok |-> FALSE, reason |-> "notes_before_required"]
    ELSE IF Truthy(b.outline) THEN [ok |-> FALSE, reason |-> "outline_exists"]
    ELSE [ok |-> TRUE, reason |-> "OK"]

can_generate_outline_IgnoresOutline(b) ==
    IF ~Truthy(b.notes_on_outline_before)
    THEN [ok |-> FALSE, reason |-> "notes_before_required"]
    ELSE [ok |-> TRUE, reason |-> "OK"]

can_generate_outline(b) ==
    IF ~Truthy(b.notes_on_outline_before)
    THEN [ok |-> FALSE, reason |-> "notes_before_required"]
    ELSE IF Truthy(b.outline) THEN [ok |-> FALSE, reason |-> "outline_exists"]
    ELSE [ok |-> TRUE, reason |-> "OK"]

can_regenerate_outline(b) ==
    IF ~Truthy(b.outline) THEN [ok |-> FALSE, reason |-> "no_outline"]
    ELSE IF ~Truthy(b.notes_on_outline_after)
    THEN [ok |-> FALSE, reason |-> "notes_after_required"]
    ELSE [ok |-> TRUE, reason |-> "OK"]

should_proceed_after_outline_NoRegeneration(b) ==
    IF ~Truthy(b.status_outline_notes) THEN [ok |-> FALSE, reason |-> "status_not_set"]
    ELSE IF b.status_outline_notes = "yes"
    THEN [ok |-> FALSE, reason |-> "waiting_for_notes_after"]
    ELSE IF b.status_outline_notes = "no_notes_needed"
    THEN [ok |-> TRUE, reason |-> "proceed"]
    ELSE IF b.status_outline_notes = "no"
    THEN [ok |-> FALSE, reason |-> "paused_by_editor"]
    ELSE [ok |-> FALSE, reason |-> "invalid_status"]

should_proceed_after_outline(b) ==
    IF ~Truthy(b.status_outline_notes) THEN [ok |-> FALSE, reason |-> "status_not_set"]
    ELSE IF b.status_outline_notes = "yes"
    THEN (IF ~Truthy(b.notes_on_outline_after)
          THEN [ok |-> FALSE, reason |-> "waiting_for_notes_after"]
          ELSE [ok |-> FALSE, reason |-> "regeneration_needed"])
    ELSE IF b.status_outline_notes = "no_notes_needed"
    THEN [ok |-> TRUE, reason |-> "proceed"]
    ELSE IF b.status_outline_notes = "no"
    THEN [ok |-> FALSE, reason |-> "paused_by_editor"]
    ELSE [ok |-> FALSE, reason |-> "invalid_status"]

(***************************************************************************)
(* Outline Workflow (workflows/outline_workflow.py)                        *)
(***************************************************************************)
\* The ways an outline call can end after its gate has passed: the generation call
\* raises, the write of the outline raises, or a later write (the completion log) raises.
OutlineOutcomes == {"ok", "llm_error", "persist_error", "late_error"}

\* the texts the generation client returns for an outline
OutlineReplies == Outlines \cup {""}

\* what the generation call handed back: nothing when it raised
ReplyOf(o, oc) == IF oc = "llm_error" THEN NULL ELSE o

\* the generation call for an outline, made while the book is as b1
\* (reply is the text it returned, null when it raised)
OutlineCall(kind, b1, notes, reply) ==
    [kind |-> kind, n |-> 0, notes |-> notes, during |-> b1.book_output_status,
     original |-> b1.outline, reply |-> reply]

\* generate_outline after the status write of line 53 left the book as b1 (lines 55-91)
GenerateOutlineAt(b1, chs, o, oc) ==
    CASE oc \in {"llm_error", "persist_error"} ->
           \* except: update_book_status(ERROR); notify_error
           Result([b1 EXCEPT !.book_output_status = "error"], chs, FALSE, "error",
                  <<OutlineCall("outline", b1, b1.notes_on_outline_before, ReplyOf(o, oc))>>,
                  <<"error">>, <<"generation_started">>)
      [] oc = "late_error" ->
           \* update_book stored outline and OUTLINE_REVIEW; create_log raises
           Result([b1 EXCEPT !.outline = o, !.book_output_status = "error"], chs,
                  FALSE, "error",
                  <<OutlineCall("outline", b1, b1.notes_on_outline_before, o)>>,
                  <<"error">>, <<"generation_started">>)
      [] OTHER ->
           Result([b1 EXCEPT !.outline = o, !.book_output_status = "outline_review"], chs,
                  TRUE, "generated",
                  <<OutlineCall("outline", b1, b1.notes_on_outline_before, o)>>,
                  <<"outline_ready">>, <<"generation_started", "generation_completed">>)

\* generate_outline after the gate check `gate` (lines 47-53)
GenerateOutlineGated(b, chs, o, oc, gate) ==
    IF ~gate.ok THEN Result(b, chs, FALSE, gate.reason, <<>>, <<>>, <<>>)
    ELSE GenerateOutlineAt([b EXCEPT !.book_output_status = "outline_generation"],
                           chs, o, oc)

generate_outline_NoStatusWrite(b, chs, o, oc) ==
    IF ~can_generate_outline(b).ok
    THEN Result(b, chs, FALSE, can_generate_outline(b).reason, <<>>, <<>>, <<>>)
    ELSE GenerateOutlineAt(b, chs, o, oc)

\* OutlineWorkflow.generate_outline(book_id)
generate_outline(b, chs, o, oc) ==
    GenerateOutlineGated(b, chs, o, oc, can_generate_outline(b))

\* regenerate_outline after the status write of line 116 left the book as b1
\* (lines 118-158); its except clause sets ERROR and does not notify
RegenerateOutlineAt(b1, chs, o, oc) ==
    CASE oc \in {"llm_error", "persist_error"} ->
           Result([b1 EXCEPT !.book_output_status = "error"], chs, FALSE, "error",
                  <<OutlineCall("regenerate_outline", b1, b1.notes_on_outline_after, ReplyOf(o, oc))>>,
                  <<>>, <<"regeneration_started">>)
      [] oc = "late_error" ->
           \* update_book stored the new outline and cleared the feedback; create_log raises
           Result([b1 EXCEPT !.outline = o, !.notes_on_outline_after = NULL,
                             !.book_output_status = "error"], chs,
                  FALSE, "error",
                  <<OutlineCall("regenerate_outline", b1, b1.notes_on_outline_after, o)>>,
                  <<>>, <<"regeneration_started">>)
      [] OTHER ->
           Result([b1 EXCEPT !.outline = o, !.notes_on_outline_after = NULL,
                             !.book_output_status = "outline_review"], chs,
                  TRUE, "regenerated",
                  <<OutlineCall("regenerate_outline", b1, b1.notes_on_outline_after, o)>>,
                  <<"outline_ready">>, <<"regeneration_started", "regeneration_completed">>)

\* regenerate_outline after the gate check `gate` (lines 110-116)
RegenerateOutlineGated(b, chs, o, oc, gate) ==
    IF ~gate.ok THEN Result(b, chs, FALSE, gate.reason, <<>>, <<>>, <<>>)
    ELSE RegenerateOutlineAt([b EXCEPT !.book_output_status = "outline_generation"],
                             chs, o, oc)

\* OutlineWorkflow.regenerate_outline(book_id)
regenerate_outline(b, chs, o, oc) ==
    RegenerateOutlineGated(b, chs, o, oc, can_regenerate_outline(b))

CheckAndProceedAfter_WaitsSilently(b, chs, o, oc, sp) ==
    IF sp.reason = "regeneration_needed" THEN regenerate_outline(b, chs, o, oc)
    ELSE IF oc # "ok"
    THEN Result(b, chs, FALSE, "error", <<>>, <<>>, <<>>)
    ELSE IF sp.ok
    THEN Result([b EXCEPT !.book_output_status = "chapter_generation"], chs, TRUE,
                "ready", <<>>, <<>>, <<>>)
    ELSE IF sp.reason = "waiting_for_notes_after"
    THEN Result(b, chs, FALSE, sp.reason, <<>>, <<>>, <<>>)
    ELSE Result([b EXCEPT !.book_output_status = "paused"], chs, FALSE, sp.reason,
                <<>>, <<"paused">>, <<>>)

\* check_and_proceed after should_proceed_after_outline gave `sp` (lines 177-194)
CheckAndProceedAfter(b, chs, o, oc, sp) ==
    IF sp.reason = "regeneration_needed" THEN regenerate_outline(b, chs, o, oc)
    ELSE IF oc # "ok"
    THEN \* update_book_stage raises; except: return False, f"Error: {e}"
         Result(b, chs, FALSE, "error", <<>>, <<>>, <<>>)
    ELSE IF sp.ok
    THEN Result([b EXCEPT !.book_output_status = "chapter_generation"], chs, TRUE,
                "ready", <<>>, <<>>, <<>>)
    ELSE Result([b EXCEPT !.book_output_status = "paused"], chs, FALSE, sp.reason,
                <<>>, <<"paused">>, <<>>)

\* OutlineWorkflow.check_and_proceed(book_id)
check_and_proceed(b, chs, o, oc) ==
    CheckAndProceedAfter(b, chs, o, oc, should_proceed_after_outline(b))

(***************************************************************************)
(* Compilation Workflow (workflows/compilation_workflow.py)                *)
(***************************************************************************)
Formats == {"docx", "pdf", "txt"}

\* the order in which the exports are tried
FormatOrder == <<"docx", "pdf", "txt">>

\* formats=None
FormatsNone == {"None"}

\* the formats arguments of compile_book
FormatArgs == {FormatsNone, {}, {"docx"}, {"pdf", "txt"}, {"all", "txt"}, {"epub"}}

\* formats is None or 'all' in formats: export_all_formats; else the named ones
Requested(formats) ==
    IF formats = FormatsNone \/ "all" \in formats THEN Formats ELSE formats \cap Formats

\* the members of FormatOrder that are in `set`, in order
RECURSIVE InOrder(_, _)
InOrder(order, set) ==
    IF order = <<>> THEN <<>>
    ELSE (IF Head(order) \in set THEN <<Head(order)>> ELSE <<>>) \o InOrder(Tail(order), set)

ExportResult(r, attempted, exported) ==
    r @@ [attempted |-> attempted, exported |-> exported]

\* the ways a compile_book call can end besides its exports failing: a write of the
\* persistence layer raises right after the gate, or after the exports
CompileOutcomes == {"ok", "persist_error", "complete_error"}

\* except Exception: update_book_status(ERROR); notify_error (lines 124-130)
CompileFailed(b, chs, logged, attempted, exported) ==
    ExportResult(Result([b EXCEPT !.book_output_status = "error"], chs, FALSE, "error",
                        <<>>, <<"error">>, logged),
                 attempted, exported)

\* compile_book after the exports (lines 100-122)
CompileAfterExports(b, chs, oc, attempted, exported) ==
    IF exported = <<>>
    THEN \* if not results: return False, {}
         ExportResult(Result(b, chs, FALSE, "no_results", <<>>, <<>>,
                             <<"compilation_started">>),
                      attempted, exported)
    ELSE IF oc = "complete_error"
    THEN CompileFailed(b, chs, <<"compilation_started">>, attempted, exported)
    ELSE ExportResult(Result([b EXCEPT !.book_output_status = "completed"], chs, TRUE,
                             "compiled", <<>>, <<"final_draft_ready">>,
                             <<"compilation_started", "compilation_completed">>),
                      attempted, exported)

CompileExports_StopAtFailure(b, chs, formats, works, oc) ==
    CompileAfterExports(b, chs, oc, InOrder(FormatOrder, Requested(formats)),
        IF Requested(formats) \subseteq works
        THEN InOrder(FormatOrder, Requested(formats)) ELSE <<>>)

\* lines 74-98: every requested export is tried in its own try block; `works` are the
\* formats whose export does not raise
CompileExports(b, chs, formats, works, oc) ==
    CompileAfterExports(b, chs, oc, InOrder(FormatOrder, Requested(formats)),
                        InOrder(FormatOrder, Requested(formats) \cap works))

\* compile_book after the gate check `gate` (lines 51-72)
CompileGated(b, chs, formats, works, oc, gate) ==
    IF ~gate.ok THEN ExportResult(Result(b, chs, FALSE, gate.reason, <<>>, <<>>, <<>>),
                                  <<>>, <<>>)
    ELSE IF oc = "persist_error"
    THEN \* status FINAL_COMPILATION is written, create_log raises
         CompileFailed(b, chs, <<>>, <<>>, <<>>)
    ELSE IF chs = <<>>
    THEN ExportResult(Result([b EXCEPT !.book_output_status = "final_compilation"], chs,
                             FALSE, "no_chapters", <<>>, <<>>, <<"compilation_started">>),
                      <<>>, <<>>)
    ELSE CompileExports([b EXCEPT !.book_output_status = "final_compilation"], chs,
                        formats, works, oc)

\* CompilationWorkflow.compile_book(book_id, formats)
compile_book(b, chs, formats, works, oc) ==
    CompileGated(b, chs, formats, works, oc, can_compile_final_draft(b, chs))
        @@ [formats |-> formats, works |-> works]

(***************************************************************************)
(* The stage gate as a pure function: evaluated on book and chapter        *)
(* fixtures (chapter numbers unique per book, as the data model requires). *)
(***************************************************************************)
MaxFixture == 3

FixtureContents == {NULL, "", "text"}

\* a chapter table holding the chapters `nums`, highest number created first
RECURSIVE FixtureTable(_, _)
FixtureTable(nums, content) ==
    IF nums = {} THEN <<>>
    ELSE LET lo == CHOOSE x \in nums : \A y \in nums : x <= y
             rest == FixtureTable(nums \ {lo}, content)
         IN Append(rest,
                   [id |-> Len(rest) + 1, chapter_number |-> lo,
                    chapter_title |-> <<"Chapter", " ">> \o ToDigits(lo),
                    content |-> content[lo], summary |-> NULL,
                    chapter_notes |-> NULL, status |-> "pending"])

GateInit ==
    /\ \E o \in {NULL, "", "OutDense"}, f \in FinalReviewValues :
         book = [NewBook(o) EXCEPT !.final_review_notes_status = f]
    /\ \E nums \in SUBSET (1..MaxFixture) :
         \E content \in [nums -> FixtureContents] :
            chapters = FixtureTable(nums, content)
    /\ last = NoCall

\* can_proceed, reason = self.state_machine.can_generate_chapter(book, chapter_number)
CheckCanGenerateChapter(n) ==
    /\ last.op = "none"
    /\ last' = [NoCall EXCEPT !.op = "can_generate_chapter", !.n = n,
                              !.ok = can_generate_chapter(book, chapters, n).ok,
                              !.reason = can_generate_chapter(book, chapters, n).reason]
    /\ UNCHANGED <<book, chapters, parseVars, retryVars, apiVars, raceVars>>

\* can_proceed, reason = self.state_machine.can_compile_final_draft(book)
CheckCanCompile ==
    /\ last.op = "none"
    /\ last' = [NoCall EXCEPT !.op = "can_compile_final_draft",
                              !.ok = can_compile_final_draft(book, chapters).ok,
                              !.reason = can_compile_final_draft(book, chapters).reason,
                              !.detail = can_compile_final_draft(book, chapters).detail]
    /\ UNCHANGED <<book, chapters, parseVars, retryVars, apiVars, raceVars>>

GateNext ==
    \/ \E n \in 0..(MaxFixture + 1) : CheckCanGenerateChapter(n)
    \/ CheckCanCompile

(***************************************************************************)
(* Compilation as a state machine: compile_book calls on books whose       *)
(* chapters exist, and the editor's final review decision.                 *)
(***************************************************************************)
CompileInit ==
    /\ \E f \in FinalReviewValues :
         book = [NewBook("OutDense") EXCEPT !.final_review_notes_status = f,
                                           !.book_output_status = "chapter_generation"]
    /\ \E nums \in SUBSET (1..MaxFixture) :
         \E content \in [nums -> {NULL, "text"}] :
            chapters = FixtureTable(nums, content)
    /\ last = NoCall

CompileBook(formats, works, oc) ==
    /\ oc = "ok" \/ can_compile_final_draft(book, chapters).ok
    /\ oc = "complete_error" => Requested(formats) \cap works # {}
    \* no export runs unless the gate passes and the first writes succeed
    /\ works # {} => (oc # "persist_error" /\ can_compile_final_draft(book, chapters).ok)
    /\ Apply("compile_book", 0, compile_book(book, chapters, formats, works, oc))

\* the editor sets the final review gate of the book
EditorSetsFinalReviewStatus(v) ==
    /\ book' = [book EXCEPT !.final_review_notes_status = v]
    /\ last' = NoCall
    /\ UNCHANGED chapters
    /\ UNCHANGED <<parseVars, retryVars, apiVars, raceVars>>

CompileNext ==
    \/ \E formats \in FormatArgs, works \in SUBSET Formats, oc \in CompileOutcomes :
          CompileBook(formats, works, oc)
    \/ \E v \in FinalReviewValues : EditorSetsFinalReviewStatus(v)

(***************************************************************************)
(* The outline stage as a state machine: one step per orchestrator call or *)
(* editor input.                                                           *)
(***************************************************************************)
NotesValues == {NULL, "", "notes"}

OutlineStatusValues == {NULL, "yes", "no", "no_notes_needed", "other"}

OutlineInit ==
    /\ book = NewBook(NULL)
    /\ chapters = <<>>
    /\ last = NoCall

\* the call reaches the generation client
OutlineGenerates == can_generate_outline(book).ok

OutlineRegenerates == can_regenerate_outline(book).ok

GenerateOutline(o, oc) ==
    /\ (oc = "ok" /\ o = "OutDense") \/ OutlineGenerates
    /\ Apply("generate_outline", 0, generate_outline(book, chapters, o, oc))

RegenerateOutline(o, oc) ==
    /\ (oc = "ok" /\ o = "OutDense") \/ OutlineRegenerates
    /\ Apply("regenerate_outline", 0, regenerate_outline(book, chapters, o, oc))

CheckAndProceed(o, oc) ==
    /\ \/ oc = "ok" /\ o = "OutDense"
       \/ should_proceed_after_outline(book).reason = "regeneration_needed"
       \/ oc = "persist_error" /\ o = "OutDense"
    /\ Apply("check_and_proceed", 0, check_and_proceed(book, chapters, o, oc))

\* the editor writes the notes the first outline is generated from
EditorWritesNotesBefore(v) ==
    /\ book' = [book EXCEPT !.notes_on_outline_before = v]
    /\ last' = NoCall
    /\ UNCHANGED chapters
    /\ UNCHANGED <<parseVars, retryVars, apiVars, raceVars>>

\* the editor writes feedback on the outline
EditorWritesNotesAfter(v) ==
    /\ book' = [book EXCEPT !.notes_on_outline_after = v]
    /\ last' = NoCall
    /\ UNCHANGED chapters
    /\ UNCHANGED <<parseVars, retryVars, apiVars, raceVars>>

\* the editor sets the outline feedback gate
EditorSetsOutlineStatus(v) ==
    /\ book' = [book EXCEPT !.status_outline_notes = v]
    /\ last' = NoCall
    /\ UNCHANGED chapters
    /\ UNCHANGED <<parseVars, retryVars, apiVars, raceVars>>

OutlineNext ==
    \/ \E o \in OutlineReplies, oc \in OutlineOutcomes : GenerateOutline(o, oc)
    \/ \E o \in OutlineReplies, oc \in OutlineOutcomes : RegenerateOutline(o, oc)
    \/ \E o \in OutlineReplies, oc \in OutlineOutcomes : CheckAndProceed(o, oc)
    \/ \E v \in NotesValues : EditorWritesNotesBefore(v)
    \/ \E v \in NotesValues : EditorWritesNotesAfter(v)
    \/ \E v \in OutlineStatusValues : EditorSetsOutlineStatus(v)

(***************************************************************************)
(* Interactive API (backend/api_interactive.py): the approve-chapter       *)
(* endpoint.  The book's entry in workflow_states is a record with a       *)
(* `present` flag; a request hands back a response record.                 *)
(***************************************************************************)
MaxRatings == 1

\* workflow_states.get(book_id, {}).get("total_chapters", 10)
DEFAULT_TOTAL_CHAPTERS == 10

NoRating == 0 - 1

\* book_id not in workflow_states; chapter_feedback is the dict of that name, as a
\* set of <<chapter number, feedback>> pairs with one pair for a number
NoWorkflowState ==
    [present |-> FALSE, step |-> "", current_chapter |-> 0, total_chapters |-> 0,
     num_chapters_requested |-> 0, ratings |-> <<>>, chapter_feedback |-> {}]

\* the entry create_book / generate_outline / approve_outline leave behind
WorkflowState(step, total) ==
    [present |-> TRUE, step |-> step, current_chapter |-> 0, total_chapters |-> total,
     num_chapters_requested |-> DEFAULT_TOTAL_CHAPTERS, ratings |-> <<>>,
     chapter_feedback |-> {}]

\* a response: the request it answers (op, n, approved), the HTTP status code, the
\* fields of the JSON body (status, next step; `body` holds the counters of a status
\* query), and the generation calls the handler made
NoResponse ==
    [op |-> "none", n |-> 0, approved |-> FALSE, code |-> 0, status |-> "",
     next_step |-> "", next_chapter |-> 0, calls |-> <<>>, body |-> <<>>]

\* a JSON body returned with HTTP 200
Reply(n, status, next_step, next_chapter, calls) ==
    [op |-> "approve_chapter", n |-> n, approved |-> FALSE, code |-> 200,
     status |-> status, next_step |-> next_step, next_chapter |-> next_chapter,
     calls |-> calls, body |-> <<>>]

\* raise HTTPException(status_code=code, ...)
HttpError(n, code, calls) ==
    [op |-> "approve_chapter", n |-> n, approved |-> FALSE, code |-> code,
     status |-> "error", next_step |-> "", next_chapter |-> 0, calls |-> calls,
     body |-> <<>>]

\* ApprovalRequest: approved, feedback, rating
ApprovalRequests ==
    [approved : BOOLEAN, feedback : {NULL, "", "fix"}, rating : {NoRating, 7}]

\* How the summary step of an approval ends: the generation client returns a
\* summary, returns an empty text, or raises; or db.update_chapter raises.
SummaryOutcomes == {"ok", "empty", "llm_error", "persist_error"}

\* lines 354-359: the rating is appended when one is given and the book has an entry
StoreRating(ws, n, approval) ==
    IF approval.rating # NoRating /\ ws.present
    THEN [ws EXCEPT !.ratings = Append(@, <<n, approval.rating>>)]
    ELSE ws

\* lines 369-380: the summary the handler holds after the generation call
SummaryHeld(c, sc) ==
    CASE sc = "llm_error" -> NULL
      [] sc = "empty" -> ""
      [] OTHER -> SummaryOf(c.content)

\* lines 383-388: if summary: db.update_chapter(chapter.id, {'summary': summary})
StoreSummary(chs, id, summary, sc) ==
    IF Truthy(summary) /\ sc # "persist_error"
    THEN [chs EXCEPT ![id].summary = summary]
    ELSE chs

\* lines 391-405: the next step after an approval
TotalChapters(ws) == IF ws.present THEN ws.total_chapters ELSE DEFAULT_TOTAL_CHAPTERS

ApprovedReply_StopsOnFailure(ws, n, sc, calls) ==
    IF sc \in {"llm_error", "persist_error"} THEN HttpError(n, 500, calls)
    ELSE IF n < TotalChapters(ws)
    THEN Reply(n, "approved", "generate_chapter", n + 1, calls)
    ELSE Reply(n, "all_approved", "final_review", 0, calls)

ApprovedReply(ws, n, sc, calls) ==
    IF n < TotalChapters(ws)
    THEN Reply(n, "approved", "generate_chapter", n + 1, calls)
    ELSE Reply(n, "all_approved", "final_review", 0, calls)

\* approve_chapter once the chapter record `id` is found (lines 368-421)
ApproveChapterAt(ws, chs, n, approval, sc, id) ==
    IF approval.approved
    THEN [workflow_states |-> ws,
          chapters |-> StoreSummary(chs, id, SummaryHeld(chs[id], sc), sc),
          response |-> ApprovedReply(ws, n, sc,
                          <<[kind |-> "summary", n |-> n, notes |-> NULL]>>)]
    ELSE IF ~Truthy(approval.feedback)
    THEN [workflow_states |-> ws, chapters |-> chs, response |-> HttpError(n, 400, <<>>)]
    ELSE [workflow_states |->
             IF ws.present
             THEN [ws EXCEPT !.chapter_feedback =
                                {e \in @ : e[1] # n} \cup {<<n, approval.feedback>>}]
             ELSE ws,
          chapters |-> chs,
          response |-> Reply(n, "needs_revision", "", 0, <<>>)]

\* POST /books/{book_id}/approve-chapter/{chapter_num}
approve_chapter(ws, chs, n, approval, sc) ==
    IF FindChapter(chs, n) = 0
    THEN [workflow_states |-> StoreRating(ws, n, approval), chapters |-> chs,
          response |-> HttpError(n, 404, <<>>)]
    ELSE ApproveChapterAt(StoreRating(ws, n, approval), chs, n, approval, sc,
                          FindChapter(chs, n))

(***************************************************************************)
(* The approval endpoint as a state machine, on books whose chapters have  *)
(* been generated in part.                                                 *)
(***************************************************************************)
ApiIdle == workflow_states = NoWorkflowState /\ response = NoResponse

ApiInit ==
    /\ book = NewBook("OutDense")
    /\ \E k \in 0..MaxFixture :
         chapters = FixtureTable(1..k, [i \in 1..k |-> "text"])
    /\ last = NoCall
    /\ workflow_states \in
         {NoWorkflowState} \cup
         {WorkflowState("chapter_generation", t) : t \in {0, MaxFixture - 1, MaxFixture}}
    /\ response = NoResponse

ApproveChapter(n, approval, sc) ==
    /\ Len(workflow_states.ratings) < MaxRatings
    /\ \/ approval.approved
       \/ Cardinality(workflow_states.chapter_feedback) < MaxRatings
    /\ sc = "ok" \/ (approval.approved /\ FindChapter(chapters, n) # 0)
    /\ approval.approved => approval.feedback = NULL
    /\ workflow_states' = approve_chapter(workflow_states, chapters, n, approval, sc).workflow_states
    /\ chapters' = approve_chapter(workflow_states, chapters, n, approval, sc).chapters
    /\ response' =
         [approve_chapter(workflow_states, chapters, n, approval, sc).response
            EXCEPT !.approved = approval.approved]
    /\ UNCHANGED <<book, last, parseVars, retryVars, raceVars>>

ApiNext ==
    \E n \in 1..(MaxFixture + 1), approval \in ApprovalRequests, sc \in SummaryOutcomes :
        ApproveChapter(n, approval, sc)

(***************************************************************************)
(* Interactive API: the endpoints an editor drives a book through          *)
(* (generate-outline, approve-outline, regenerate-outline,                 *)
(* generate-chapter, approve-chapter, status).  The outlines record is     *)
(* held in the book record: outline, notes_on_outline_before (notes_before) *)
(* and notes_on_outline_after (notes_after).                               *)
(***************************************************************************)
MaxRows == 2

\* the response of an endpoint other than approve-chapter
EndpointReply(op, n, code, status, next_step, calls) ==
    [NoResponse EXCEPT !.op = op, !.n = n, !.code = code, !.status = status,
                       !.next_step = next_step, !.calls = calls]

\* the entry create_book leaves behind for a request with num_chapters = k
CreatedState(k) ==
    [WorkflowState("outline_pending", 0) EXCEPT !.num_chapters_requested = k]

\* workflow_states.get(book_id, {}).get("num_chapters_requested", 10)
NumChaptersRequested(ws) ==
    IF ws.present THEN ws.num_chapters_requested ELSE DEFAULT_TOTAL_CHAPTERS

\* the titles parse_outline_chapters(outline, expected_count) finds in the two
\* outlines, after its renumbering; an outline without headings yields the defaults
ParsedTitles(o, expected) ==
    CASE o = "OutDense" -> SubSeq(<< <<"Intro">>, <<"Basics">> >>, 1,
                                  IF expected < 2 THEN expected ELSE 2)
      [] o = "OutGap" -> SubSeq(<< <<"Intro">>, <<"Deep">> >>, 1,
                                IF expected < 2 THEN expected ELSE 2)
      [] OTHER -> [i \in 1..expected |-> <<"Chapter", " ">> \o ToDigits(i)]

\* next((c["title"] for c in chapters if c["number"] == chapter_num), f"Chapter {n}")
TitleFor(o, expected, n) ==
    IF n \in 1..Len(ParsedTitles(o, expected)) THEN ParsedTitles(o, expected)[n]
    ELSE <<"Chapter", " ">> \o ToDigits(n)

\* How a generating endpoint ends: every call works, the generation client raises,
\* or the write to the database raises.
EndpointOutcomes == {"ok", "llm_error", "persist_error"}

\* POST /books/{book_id}/generate-outline
api_generate_outline(b, ws, o, oc) ==
    IF oc # "ok"
    THEN [book |-> b, workflow_states |-> ws,
          response |-> EndpointReply("generate_outline", 0, 500, "error", "",
                          <<[kind |-> "outline", n |-> 0, notes |-> b.notes_on_outline_before]>>)]
    ELSE [book |-> [b EXCEPT !.outline = o],
          workflow_states |->
             [(IF ws.present THEN ws
               ELSE [NoWorkflowState EXCEPT !.present = TRUE,
                                            !.num_chapters_requested = DEFAULT_TOTAL_CHAPTERS])
                EXCEPT !.step = "outline_review", !.current_chapter = 0,
                       !.total_chapters = Len(ParsedTitles(o, NumChaptersRequested(ws)))],
          response |-> EndpointReply("generate_outline", 0, 200, "pending_approval", "",
                          <<[kind |-> "outline", n |-> 0, notes |-> b.notes_on_outline_before]>>)]

\* lines 186-191: the rating is appended when one is given and the book has an entry
StoreOutlineRating(ws, approval) ==
    IF approval.rating # NoRating /\ ws.present
    THEN [ws EXCEPT !.ratings = Append(@, <<0, approval.rating>>)]
    ELSE ws

\* lines 198-204: the entry approve_outline creates for a book that has none
ApprovedState(ws) ==
    IF ws.present THEN ws
    ELSE [WorkflowState("", DEFAULT_TOTAL_CHAPTERS)
            EXCEPT !.num_chapters_requested = DEFAULT_TOTAL_CHAPTERS]

\* POST /books/{book_id}/approve-outline
api_approve_outline(b, ws, approval) ==
    IF approval.approved
    THEN [book |-> b,
          workflow_states |->
             [ApprovedState(StoreOutlineRating(ws, approval))
                EXCEPT !.step = "chapter_generation"],
          response |-> EndpointReply("approve_outline", 0, 200, "approved",
                                     "generate_chapter_1", <<>>)]
    ELSE IF ~Truthy(approval.feedback)
    THEN \* HTTPException(400) is raised inside the try block and caught by
         \* `except Exception`, which answers 500
         [book |-> b, workflow_states |-> StoreOutlineRating(ws, approval),
          response |-> EndpointReply("approve_outline", 0, 500, "error", "", <<>>)]
    ELSE [book |-> [b EXCEPT !.notes_on_outline_after = approval.feedback],
          workflow_states |-> StoreOutlineRating(ws, approval),
          response |-> EndpointReply("approve_outline", 0, 200, "needs_revision",
                                     "regenerate_outline", <<>>)]

\* POST /books/{book_id}/regenerate-outline
api_regenerate_outline(b, ws, o, oc) ==
    IF oc # "ok"
    THEN [book |-> b, workflow_states |-> ws,
          response |-> EndpointReply("regenerate_outline", 0, 500, "error", "",
                          <<[kind |-> "regenerate_outline", n |-> 0,
                             notes |-> b.notes_on_outline_after]>>)]
    ELSE [book |-> [b EXCEPT !.outline = o], workflow_states |-> ws,
          response |-> EndpointReply("regenerate_outline", 0, 200, "pending_approval", "",
                          <<[kind |-> "regenerate_outline", n |-> 0,
                             notes |-> b.notes_on_outline_after]>>)]

\* lines 289-291: the approval check on the workflow step
StepAllowsChapters(ws) ==
    (IF ws.present THEN ws.step ELSE "") \in {"chapter_generation", "chapter_review"}

\* Chapter(book_id, chapter_number, title, content), inserted by db.create_chapter
CreatedChapter(id, n, title, content) ==
    [id |-> id, chapter_number |-> n, chapter_title |-> title, content |-> content,
     summary |-> NULL, chapter_notes |-> NULL, status |-> "pending"]

\* POST /books/{book_id}/generate-chapter/{chapter_num}
api_generate_chapter(b, ws, chs, n, oc) ==
    IF ~StepAllowsChapters(ws) \/ b.outline = NULL
    THEN \* HTTPException(400), or outline.split raising on None: both are caught by
         \* `except Exception`, which answers 500
         [workflow_states |-> ws, chapters |-> chs,
          response |-> EndpointReply("generate_chapter", n, 500, "error", "", <<>>)]
    ELSE IF oc # "ok"
    THEN [workflow_states |-> ws, chapters |-> chs,
          response |-> EndpointReply("generate_chapter", n, 500, "error", "",
                          <<[kind |-> "chapter", n |-> n, notes |-> NULL]>>)]
    ELSE [workflow_states |-> [ws EXCEPT !.current_chapter = n],
          chapters |-> Append(chs,
                          CreatedChapter(Len(chs) + 1, n,
                                         TitleFor(b.outline, NumChaptersRequested(ws), n),
                                         ChapterText(NULL))),
          response |-> EndpointReply("generate_chapter", n, 200, "pending_approval", "",
                          <<[kind |-> "chapter", n |-> n, notes |-> NULL]>>)]

\* len([c for c in chapters if c.summary])
RECURSIVE CountSummarized(_)
CountSummarized(chs) ==
    IF chs = <<>> THEN 0
    ELSE (IF Truthy(Head(chs).summary) THEN 1 ELSE 0) + CountSummarized(Tail(chs))

\* GET /books/{book_id}/status
get_status(ws, chs) ==
    [EndpointReply("get_status", 0, 200, "", "", <<>>) EXCEPT !.body =
       <<[workflow_step |-> IF ws.present THEN ws.step ELSE "created",
          outline_status |->
             IF ws.present /\ ws.step \in {"chapter_generation", "chapter_review",
                                            "final", "completed"}
             THEN "approved" ELSE "pending",
          chapters_total |-> IF ws.present THEN ws.total_chapters ELSE 0,
          chapters_approved |-> CountSummarized(get_chapters_by_book(chs)),
          current_chapter |-> IF ws.present THEN ws.current_chapter ELSE 0]>>]

(***************************************************************************)
(* The endpoints as a state machine, from the state create_book leaves:    *)
(* a book with the editor's requirements and no outline, no chapters, and  *)
(* an entry in workflow_states (none after the server was restarted).      *)
(***************************************************************************)
EndpointsInit ==
    /\ book = [NewBook(NULL) EXCEPT !.notes_on_outline_before = "notes"]
    /\ chapters = <<>>
    /\ last = NoCall
    /\ workflow_states \in {NoWorkflowState, CreatedState(2)}
    /\ response = NoResponse

PostGenerateOutline(o, oc) ==
    /\ book' = api_generate_outline(book, workflow_states, o, oc).book
    /\ workflow_states' = api_generate_outline(book, workflow_states, o, oc).workflow_states
    /\ response' = api_generate_outline(book, workflow_states, o, oc).response
    /\ UNCHANGED <<chapters, last, parseVars, retryVars, raceVars>>

PostApproveOutline(approval) ==
    /\ approval.rating = NoRating \/ Len(workflow_states.ratings) < MaxRatings
    /\ approval.approved => approval.feedback = NULL
    /\ book' = api_approve_outline(book, workflow_states, approval).book
    /\ workflow_states' = api_approve_outline(book, workflow_states, approval).workflow_states
    /\ response' =
         [api_approve_outline(book, workflow_states, approval).response
            EXCEPT !.approved = approval.approved]
    /\ UNCHANGED <<chapters, last, parseVars, retryVars, raceVars>>

PostRegenerateOutline(o, oc) ==
    /\ book' = api_regenerate_outline(book, workflow_states, o, oc).book
    /\ workflow_states' = api_regenerate_outline(book, workflow_states, o, oc).workflow_states
    /\ response' = api_regenerate_outline(book, workflow_states, o, oc).response
    /\ UNCHANGED <<chapters, last, parseVars, retryVars, raceVars>>

PostGenerateChapter(n, oc) ==
    /\ Len(chapters) < MaxRows
    /\ workflow_states' = api_generate_chapter(book, workflow_states, chapters, n, oc).workflow_states
    /\ chapters' = api_generate_chapter(book, workflow_states, chapters, n, oc).chapters
    /\ response' = api_generate_chapter(book, workflow_states, chapters, n, oc).response
    /\ UNCHANGED <<book, last, parseVars, retryVars, raceVars>>

GetStatus ==
    /\ response' = get_status(workflow_states, chapters)
    /\ UNCHANGED <<book, chapters, last, workflow_states, parseVars, retryVars, raceVars>>

\* the approvals an editor sends, without a rating: an approval, a rejection with
\* feedback, and a rejection that lacks it
EndpointApprovals ==
    {a \in ApprovalRequests :
        /\ a.feedback # ""
        /\ a.approved => a.feedback = NULL
        /\ a.rating = NoRating}

EndpointsNext ==
    \/ \E oc \in {"ok", "llm_error"} : PostGenerateOutline("OutDense", oc)
    \/ \E approval \in EndpointApprovals : PostApproveOutline(approval)
    \/ \E oc \in {"ok", "llm_error"} : PostRegenerateOutline("OutGap", oc)
    \/ \E n \in 1..2, oc \in EndpointOutcomes : PostGenerateChapter(n, oc)
    \/ \E n \in 1..2, approval \in EndpointApprovals, sc \in {"ok", "llm_error"} :
          ApproveChapter(n, approval, sc)
    \/ GetStatus

(***************************************************************************)
(* Context Chain (core/context_manager.py, DatabaseService                 *)
(* .get_previous_chapter_summaries)                                        *)
(***************************************************************************)
\* the summaries of the rows of `rows`, in order, leaving out the falsy ones
RECURSIVE TruthySummaries(_)
TruthySummaries(rows) ==
    IF rows = <<>> THEN <<>>
    ELSE (IF Truthy(rows[1].summary) THEN <<rows[1].summary>> ELSE <<>>)
         \o TruthySummaries(Tail(rows))

\* .lt('chapter_number', before_chapter)
RECURSIVE RowsBefore(_, _)
RowsBefore(rows, n) ==
    IF rows = <<>> THEN <<>>
    ELSE (IF rows[1].chapter_number < n THEN <<rows[1]>> ELSE <<>>)
         \o RowsBefore(Tail(rows), n)

get_previous_chapter_summaries_TableOrder(chs, n) ==
    TruthySummaries(RowsBefore(chs, n))

\* DatabaseService.get_previous_chapter_summaries(book_id, before_chapter)
get_previous_chapter_summaries(chs, n) ==
    TruthySummaries(RowsBefore(get_chapters_by_book(chs), n))

\* ContextManager.get_context_for_chapter: a fetch that raises yields []
get_context_for_chapter(chs, n, dbc) ==
    IF dbc = "db_error" THEN <<>> ELSE get_previous_chapter_summaries(chs, n)

\* the summary the generation client writes for chapter k
SummaryText(k) == <<"S1", "S2", "S3", "S4", "S5", "S6">>[k]

\* LLMService.generate_chapter, the context section of the prompt (llm_service.py,
\* lines 209-214): one line "Chapter {i+1} Summary: {summary}" per entry of
\* previous_summaries, i its 0-based position in the list
ContextSection(previous_summaries) ==
    [i \in 1..Len(previous_summaries) |->
        [label |-> i, summary |-> previous_summaries[i]]]

\* what one summary generation hands back: the text for the chapter, or an empty text
SummaryReply(c, emptyFor) ==
    IF c.chapter_number \in emptyFor THEN "" ELSE SummaryText(c.chapter_number)

\* How a generate_and_store_summary call ends.
StoreOutcomes == {"ok", "llm_error", "persist_error"}

\* ContextManager.generate_and_store_summary(chapter) on the table chs:
\* the table afterwards, whether it raised, and whether a generation call was made
generate_and_store_summary(chs, c, reply, oc) ==
    IF ~Truthy(c.content) THEN [chapters |-> chs, raised |-> FALSE, called |-> FALSE]
    ELSE IF oc # "ok" THEN [chapters |-> chs, raised |-> TRUE, called |-> TRUE]
    ELSE [chapters |-> [chs EXCEPT ![c.id].summary = reply],
          raised |-> FALSE, called |-> TRUE]

\* the loop of rebuild_context_chain
RebuildStart(chs) == [chapters |-> chs, count |-> 0, calls |-> <<>>, raised |-> FALSE]

RebuildAfter(st, c, r) ==
    [chapters |-> r.chapters,
     count |-> IF r.raised THEN st.count ELSE st.count + 1,
     calls |-> IF r.called
               THEN Append(st.calls, [kind |-> "summary", n |-> c.chapter_number, notes |-> NULL])
               ELSE st.calls,
     raised |-> r.raised]

RebuildStep_NoSkip(st, c, emptyFor, oc) ==
    IF Truthy(c.content)
    THEN RebuildAfter(st, c,
            generate_and_store_summary(st.chapters, c, SummaryReply(c, emptyFor), oc))
    ELSE st

\* one iteration (lines 93-95) on the list entry c
RebuildStep(st, c, emptyFor, oc) ==
    IF Truthy(c.content) /\ ~Truthy(c.summary)
    THEN RebuildAfter(st, c,
            generate_and_store_summary(st.chapters, c, SummaryReply(c, emptyFor), oc))
    ELSE st

\* the loop over the list `snap` read before it, from position i on; the failAt-th
\* summary call of the invocation ends as `kind`
RECURSIVE RebuildLoop(_, _, _, _, _, _)
RebuildLoop(st, snap, i, emptyFor, failAt, kind) ==
    IF i > Len(snap) \/ st.raised THEN st
    ELSE RebuildLoop(
            RebuildStep(st, snap[i], emptyFor,
                        IF Len(st.calls) + 1 = failAt THEN kind ELSE "ok"),
            snap, i + 1, emptyFor, failAt, kind)

RebuildResult(st) ==
    Result(NULL, st.chapters, ~st.raised, IF st.raised THEN "raised" ELSE "rebuilt",
           st.calls, <<>>, <<>>)
      @@ [detail |-> IF st.raised THEN <<>> ELSE <<st.count>>]

\* ContextManager.rebuild_context_chain(book_id)
rebuild_context_chain(chs, emptyFor, failAt, kind) ==
    RebuildResult(RebuildLoop(RebuildStart(chs), get_chapters_by_book(chs), 1,
                              emptyFor, failAt, kind))

(***************************************************************************)
(* The context chain as a state machine, on chapter tables in any row      *)
(* order with and without content and summaries.                           *)
(***************************************************************************)
\* a row of the chapters table: number k, stored as row id
ContextRow(id, k, content, summary) ==
    [id |-> id, chapter_number |-> k,
     chapter_title |-> <<"Chapter", " ">> \o ToDigits(k),
     content |-> content, summary |-> summary,
     chapter_notes |-> NULL, status |-> "review"]

\* what a row holds: nothing, content only, content with an empty summary,
\* content with its summary
RowKinds == {"empty", "content", "blank_summary", "summarized"}

RowFor(id, k, kind) ==
    ContextRow(id, k,
               IF kind = "empty" THEN NULL ELSE "text",
               CASE kind = "blank_summary" -> ""
                 [] kind = "summarized" -> SummaryText(k)
                 [] OTHER -> NULL)

\* the numbers nums as a table, rows in ascending or descending order of number
RECURSIVE ContextTable(_, _, _)
ContextTable(nums, kinds, ascending) ==
    IF nums = {} THEN <<>>
    ELSE LET last_k == IF ascending
                       THEN CHOOSE x \in nums : \A y \in nums : x >= y
                       ELSE CHOOSE x \in nums : \A y \in nums : x <= y
             rest == ContextTable(nums \ {last_k}, kinds, ascending)
         IN Append(rest, RowFor(Len(rest) + 1, last_k, kinds[last_k]))

ContextInit ==
    /\ book = NewBook("OutDense")
    /\ \E nums \in SUBSET (1..MaxFixture), ascending \in BOOLEAN :
         \E kinds \in [nums -> RowKinds] :
            chapters = ContextTable(nums, kinds, ascending)
    /\ last = NoCall

GetContextForChapter(n, dbc) ==
    /\ last' = [NoCall EXCEPT !.op = "get_context_for_chapter", !.n = n,
                              !.ok = (dbc = "ok"),
                              !.detail = get_context_for_chapter(chapters, n, dbc)]
    /\ UNCHANGED <<book, chapters, parseVars, retryVars, apiVars, raceVars>>

RebuildContextChain(emptyFor, failAt, kind) ==
    /\ failAt <= Len(chapters)
    /\ chapters' = rebuild_context_chain(chapters, emptyFor, failAt, kind).chapters
    /\ last' = Called("rebuild_context_chain", 0,
                      rebuild_context_chain(chapters, emptyFor, failAt, kind))
    /\ UNCHANGED <<book, parseVars, retryVars, apiVars, raceVars>>

ContextNext ==
    \/ \E n \in 0..(MaxFixture + 1), dbc \in {"ok", "db_error"} : GetContextForChapter(n, dbc)
    \/ \E emptyFor \in SUBSET (1..MaxFixture), failAt \in 0..MaxFixture,
          kind \in StoreOutcomes \ {"ok"} :
          RebuildContextChain(emptyFor, failAt, kind)

(***************************************************************************)
(* The three workflows on one book: every orchestrator call of the outline, *)
(* chapter and compilation workflows, and the editor's inputs between them.  *)
(***************************************************************************)
\* a book created with the notes its outline is generated from
PipelineInit ==
    /\ book = [NewBook(NULL) EXCEPT !.notes_on_outline_before = "notes",
                                    !.chapter_notes_status = "no_notes_needed"]
    /\ chapters = <<>>
    /\ last = NoCall

PipelineOutcomes == {"ok", "llm_error"}

PipelineNext ==
    \/ \E o \in {"OutDense", ""}, oc \in PipelineOutcomes : GenerateOutline(o, oc)
    \/ \E oc \in PipelineOutcomes : RegenerateOutline("OutDense", oc)
    \/ \E oc \in PipelineOutcomes : CheckAndProceed("OutDense", oc)
    \/ EditorWritesNotesAfter("notes")
    \/ \E v \in {"yes", "no", "no_notes_needed"} : EditorSetsOutlineStatus(v)
    \/ InitializeChapters
    \/ \E n \in 1..2, oc \in PipelineOutcomes : GenerateChapter(n, oc)
    \/ \E failAt \in 0..1 : GenerateAllChapters(failAt, "llm_error")
    \/ \E oc \in PipelineOutcomes : RegenerateChapter(1, "fix", oc)
    \/ EditorSetsFinalReviewStatus("no")
    \/ \E works \in {Formats, {}}, oc \in {"ok", "complete_error"} :
          CompileBook(FormatsNone, works, oc)

(***************************************************************************)
(* The chapter stage run to its end: a book with an outline whose chapter  *)
(* notes gate is no_notes_needed, and an orchestrator that calls            *)
(* generate_all_chapters again after every failure.  Persistence works; a  *)
(* generation call may raise, and a run in which none raises comes back.    *)
(***************************************************************************)
LiveInit ==
    /\ book \in {[NewBook(o) EXCEPT !.chapter_notes_status = "no_notes_needed"] :
                    o \in Outlines}
    /\ chapters = <<>>
    /\ last = NoCall

LiveNext ==
    \/ InitializeChapters
    \/ \E n \in 1..MaxChapterArg, oc \in {"ok", "llm_error", "summary_error"} :
          GenerateChapter(n, oc)
    \/ \E failAt \in 0..MaxChapterArg, kind \in {"llm_error", "summary_error"} :
          GenerateAllChapters(failAt, kind)

(***************************************************************************)
(* Concurrent invocations of OutlineWorkflow.generate_outline              *)
(* (workflows/outline_workflow.py, lines 40-91).  An invocation is a       *)
(* sequence of database and client calls; between two calls of one         *)
(* invocation another invocation may take steps.  No lock or transaction   *)
(* spans the calls: the gate is evaluated on the copy of the book that     *)
(* get_book returned.                                                      *)
(***************************************************************************)
MaxInvocations == 2

Invocations == 1..MaxInvocations

\* an invocation that is not running; `book` and `outline` are its local variables
IdleRun ==
    [pc |-> "idle", book |-> NewBook(NULL), outline |-> NULL, ok |-> FALSE, reason |-> ""]

\* an invocation that has returned (ok, reason); stored is the outline it persisted
ReturnedRun(ok, reason, stored) ==
    [IdleRun EXCEPT !.pc = "returned", !.ok = ok, !.reason = reason, !.outline = stored]

RaceIdle == runs = [i \in Invocations |-> IdleRun]

RaceInit ==
    /\ book \in {[NewBook(NULL) EXCEPT !.notes_on_outline_before = v] : v \in {"", "notes"}}
    /\ chapters = <<>>
    /\ last = NoCall
    /\ runs = [i \in Invocations |-> IdleRun]

\* generate_outline(book_id) is called
Invoke(i) ==
    /\ runs[i].pc \in {"idle", "returned"}
    /\ runs' = [runs EXCEPT ![i] = [IdleRun EXCEPT !.pc = "get_book"]]
    /\ UNCHANGED <<parseVars, retryVars, wfVars, apiVars>>

\* lines 43-50: book = get_book(book_id), then the gate on that copy
ReadAndCheck(i) ==
    /\ runs[i].pc = "get_book"
    /\ runs' = [runs EXCEPT ![i] =
                  IF can_generate_outline(book).ok
                  THEN [@ EXCEPT !.pc = "passed", !.book = book]
                  ELSE ReturnedRun(FALSE, can_generate_outline(book).reason, NULL)]
    /\ UNCHANGED <<parseVars, retryVars, wfVars, apiVars>>

\* line 53: update_book_stage(book_id, OUTLINE_GENERATION)
WriteGenerating(i) ==
    /\ runs[i].pc = "passed"
    /\ book' = [book EXCEPT !.book_output_status = "outline_generation"]
    /\ runs' = [runs EXCEPT ![i].pc = "call"]
    /\ UNCHANGED <<chapters, last, parseVars, retryVars, apiVars>>

\* line 65: outline = llm.generate_outline(book.title, book.notes_on_outline_before)
CallClient(i, o, oc) ==
    /\ runs[i].pc = "call"
    /\ runs' = [runs EXCEPT ![i] =
                  IF oc = "llm_error" THEN [@ EXCEPT !.pc = "except"]
                  ELSE [@ EXCEPT !.pc = "persist", !.outline = o]]
    /\ UNCHANGED <<parseVars, retryVars, wfVars, apiVars>>

\* lines 68-71: update_book(book_id, {outline, OUTLINE_REVIEW})
PersistOutline(i, oc) ==
    /\ runs[i].pc = "persist"
    /\ IF oc = "persist_error"
       THEN /\ runs' = [runs EXCEPT ![i] = [@ EXCEPT !.pc = "except", !.outline = NULL]]
            /\ UNCHANGED book
       ELSE /\ book' = [book EXCEPT !.outline = runs[i].outline,
                                    !.book_output_status = "outline_review"]
            /\ runs' = [runs EXCEPT ![i].pc = "log"]
    /\ UNCHANGED <<chapters, last, parseVars, retryVars, apiVars>>

\* lines 74-85: the completion log and the notification, then return True
Complete(i, oc) ==
    /\ runs[i].pc = "log"
    /\ runs' = [runs EXCEPT ![i] =
                  IF oc = "late_error" THEN [@ EXCEPT !.pc = "except"]
                  ELSE ReturnedRun(TRUE, "generated", @.outline)]
    /\ UNCHANGED <<parseVars, retryVars, wfVars, apiVars>>

\* lines 87-91: except: update_book_status(ERROR), notify_error, return False
HandleError(i) ==
    /\ runs[i].pc = "except"
    /\ book' = [book EXCEPT !.book_output_status = "error"]
    /\ runs' = [runs EXCEPT ![i] = ReturnedRun(FALSE, "error", @.outline)]
    /\ UNCHANGED <<chapters, last, parseVars, retryVars, apiVars>>

RaceNext ==
    \/ \E i \in Invocations : Invoke(i)
    \/ \E i \in Invocations : ReadAndCheck(i)
    \/ \E i \in Invocations : WriteGenerating(i)
    \/ \E i \in Invocations, o \in Outlines, oc \in {"ok", "llm_error"} : CallClient(i, o, oc)
    \/ \E i \in Invocations, oc \in {"ok", "persist_error"} : PersistOutline(i, oc)
    \/ \E i \in Invocations, oc \in {"ok", "late_error"} : Complete(i, oc)
    \/ \E i \in Invocations : HandleError(i)

(***************************************************************************)
(* Specifications                                                          *)
(***************************************************************************)
ParseIdle ==
    /\ outline_text = <<>> /\ expected_count = 0 /\ line_idx = 1 /\ chapters_acc = <<>>
    /\ seen_numbers = {} /\ parsed = <<>> /\ ppc = "done"

RetryIdle ==
    /\ max_retries = 0 /\ attempt = 0 /\ calls_made = 0 /\ sleeps = <<>>
    /\ errors_seen = <<>> /\ rpc = "idle" /\ raised = NULL

WfIdle == book = NewBook(NULL) /\ chapters = <<>> /\ last = NoCall

ParseStart == ParseInit /\ RetryIdle /\ WfIdle /\ ApiIdle /\ RaceIdle

SpecParse ==
    /\ ParseStart
    /\ [][ParseNext]_vars

RetryStart == RetryInit /\ ParseIdle /\ WfIdle /\ ApiIdle /\ RaceIdle

SpecRetry ==
    /\ RetryStart
    /\ [][RetryNext]_vars

ChaptersStart == ChaptersInit /\ ParseIdle /\ RetryIdle /\ ApiIdle /\ RaceIdle

SpecChapters ==
    /\ ChaptersStart
    /\ [][ChaptersNext]_vars

OutlineStart == OutlineInit /\ ParseIdle /\ RetryIdle /\ ApiIdle /\ RaceIdle

SpecOutline ==
    /\ OutlineStart
    /\ [][OutlineNext]_vars

CompileStart == CompileInit /\ ParseIdle /\ RetryIdle /\ ApiIdle /\ RaceIdle

SpecCompile ==
    /\ CompileStart
    /\ [][CompileNext]_vars

GateStart == GateInit /\ ParseIdle /\ RetryIdle /\ ApiIdle /\ RaceIdle

ApiStart == ApiInit /\ ParseIdle /\ RetryIdle /\ RaceIdle

ContextStart == ContextInit /\ ParseIdle /\ RetryIdle /\ ApiIdle /\ RaceIdle

PipelineStart == PipelineInit /\ ParseIdle /\ RetryIdle /\ ApiIdle /\ RaceIdle

SpecPipeline ==
    /\ PipelineStart
    /\ [][PipelineNext]_vars

SpecContext ==
    /\ ContextStart
    /\ [][ContextNext]_vars

SpecApi ==
    /\ ApiStart
    /\ [][ApiNext]_vars

LiveStart == LiveInit /\ ParseIdle /\ RetryIdle /\ ApiIdle /\ RaceIdle

\* every generation call eventually succeeds: the invocation of generate_all_chapters
\* in which no call raises is taken whenever it stays possible
SpecLive ==
    /\ LiveStart
    /\ [][LiveNext]_vars
    /\ WF_vars(GenerateAllChapters(0, "llm_error"))

EndpointsStart == EndpointsInit /\ ParseIdle /\ RetryIdle /\ RaceIdle

SpecEndpoints ==
    /\ EndpointsStart
    /\ [][EndpointsNext]_vars

RaceStart == RaceInit /\ ParseIdle /\ RetryIdle /\ ApiIdle

SpecRace ==
    /\ RaceStart
    /\ [][RaceNext]_vars

SpecGate ==
    /\ GateStart
    /\ [][GateNext]_vars

(***************************************************************************)
(* Properties of the outline parser (SpecParse)                            *)
(***************************************************************************)
\* a line the parser accepts as a heading: it matches and its title is no placeholder
ValidHeading(raw) == HeadingMatch(Strip(raw)) /\ ~IsPlaceholder(MatchTitle(Strip(raw)))

HeadingNumber(raw) == MatchNumber(Strip(raw))

HeadingTitle(raw) == CleanTitle(MatchTitle(Strip(raw)))

\* positions of the valid heading lines of the outline
ValidAt == {p \in 1..Len(outline_text) : ValidHeading(outline_text[p])}

\* positions of the valid heading lines that are the first to claim their number
FirstAt ==
    {p \in ValidAt : \A q \in ValidAt :
        q < p => HeadingNumber(outline_text[q]) # HeadingNumber(outline_text[p])}

\* the first expected_count of them, in document order
TakenAt == {p \in FirstAt : Cardinality({q \in FirstAt : q < p}) < expected_count}

\* the position in TakenAt whose parsed number is the i-th smallest
TakenByRank(i) ==
    CHOOSE p \in TakenAt :
        Cardinality({q \in TakenAt :
            HeadingNumber(outline_text[q]) < HeadingNumber(outline_text[p])}) = i - 1

NumberedFromOne == \A i \in 1..Len(parsed) : parsed[i].number = i

\* the returned titles occur in this order among the valid headings of the document
RECURSIVE InDocumentOrder(_, _)
InDocumentOrder(i, from) ==
    \/ i > Len(parsed)
    \/ \E p \in ValidAt :
         /\ p >= from
         /\ HeadingTitle(outline_text[p]) = parsed[i].title
         /\ \A q \in ValidAt : (q >= from /\ q < p) =>
                HeadingTitle(outline_text[q]) # parsed[i].title
         /\ InDocumentOrder(i + 1, p + 1)

\* C8 as stated: with K >= expected_count valid heading lines the parser returns
\* exactly expected_count entries, numbered 1..expected_count, titles in document order.
C8_AsStated ==
    (ppc = "done" /\ Cardinality(ValidAt) >= expected_count) =>
        /\ Len(parsed) = expected_count
        /\ NumberedFromOne
        /\ InDocumentOrder(1, 1)

\* C8 (amended): when the valid heading lines carry at least expected_count distinct
\* chapter numbers, the parser returns exactly expected_count entries numbered
\* 1..expected_count: the first expected_count valid headings with a number not seen
\* before, arranged by ascending parsed number (later lines repeating a number are
\* dropped before renumbering); that is document order when those numbers ascend.
C8_CountAndOrder ==
    (ppc = "done" /\ Cardinality(FirstAt) >= expected_count) =>
        /\ Len(parsed) = expected_count
        /\ NumberedFromOne
        /\ \A i \in 1..Len(parsed) :
              parsed[i].title = HeadingTitle(outline_text[TakenByRank(i)])
        /\ (\A p, q \in TakenAt :
              p < q => HeadingNumber(outline_text[p]) < HeadingNumber(outline_text[q]))
           => InDocumentOrder(1, 1)

\* C8 witness: "Chapter 2" stands before "Chapter 1" and both are returned, by number
C8_Witness ==
    /\ ppc = "done"
    /\ expected_count = 2
    /\ Len(outline_text) = 3
    /\ outline_text[1] = <<"Chapter", " ", "2", ":", " ", "Basics">>
    /\ outline_text[2] = <<" ", "chapter", " ", "1", ":", "Again", " ">>
    /\ parsed = << [number |-> 1, title |-> <<"Again">>],
                   [number |-> 2, title |-> <<"Basics">>] >>

\* C9: an outline with no valid heading line yields exactly expected_count synthetic
\* entries, entry i numbered i and titled "Chapter i".
C9_Defaults ==
    (ppc = "done" /\ ValidAt = {}) =>
        /\ Len(parsed) = expected_count
        /\ \A i \in 1..Len(parsed) :
              parsed[i] = [number |-> i, title |-> <<"Chapter", " ", Digits[i + 1]>>]

\* C9 witness: only a placeholder heading and a description line, three defaults
C9_Witness ==
    /\ ppc = "done"
    /\ expected_count = 3
    /\ Len(outline_text) = 2
    /\ outline_text[1] = <<"Chapter", " ", "3", ":", " ", "[Chapter Title Here]">>
    /\ outline_text[2] = <<"In", " ", "this", " ", "chapter", " ", "2", ":", " ", "more">>
    /\ Len(parsed) = 3
    /\ parsed[3].title = <<"Chapter", " ", "3">>

\* C10: of the valid heading lines that claim one chapter number the parser keeps the
\* earliest and drops the later ones; no two kept entries come from the same number,
\* and every returned entry is one of the kept ones.
C10_FirstWins ==
    /\ \A i, j \in 1..Len(chapters_acc) :
          i # j => chapters_acc[i].number # chapters_acc[j].number
    /\ \A i \in 1..Len(chapters_acc) :
          \E p \in FirstAt :
             /\ HeadingNumber(outline_text[p]) = chapters_acc[i].number
             /\ HeadingTitle(outline_text[p]) = chapters_acc[i].title
    /\ (ppc = "done" /\ chapters_acc # <<>>) =>
          /\ Len(parsed) <= Len(chapters_acc)
          /\ \A i \in 1..Len(parsed) :
                \E p \in FirstAt : HeadingTitle(outline_text[p]) = parsed[i].title

\* C10 witness: two lines claim chapter 1; the first title is returned, the second is not
C10_Witness ==
    /\ ppc = "done"
    /\ expected_count = 3
    /\ Len(outline_text) = 3
    /\ outline_text[1] = <<"Chapter", " ", "1", ":", " ", "Intro">>
    /\ outline_text[2] = <<" ", "chapter", " ", "1", ":", "Again", " ">>
    /\ outline_text[3] = <<"Chapter", " ", "2", ":", " ", "Basics">>
    /\ parsed = << [number |-> 1, title |-> <<"Intro">>],
                   [number |-> 2, title |-> <<"Basics">>] >>

(***************************************************************************)
(* Properties of the retry loop (SpecRetry).  Delays are in tenths of a    *)
(* second.                                                                 *)
(***************************************************************************)
RetryEnded == rpc \in {"returned", "raised"}

AllRateLimited == \A k \in 1..Len(errors_seen) : IsRateLimit(errors_seen[k])

\* C5 as stated: with max_retries = M >= 1 and every attempt failing with a rate-limit
\* failure, the client makes exactly M attempts, sleeps exactly M - 1 times and raises
\* the distinguished rate-limit error.
C5_AsStated ==
    (rpc = "raised" /\ max_retries >= 1 /\ AllRateLimited) =>
        /\ calls_made = max_retries
        /\ Len(sleeps) = max_retries - 1
        /\ raised = RATE_LIMIT_ERROR

\* C5, the failing run: three attempts allowed, the first rate-limited failure carries
\* "retry in .s"; float(".") fails in the handler after one attempt and no sleep.
C5_Witness ==
    /\ rpc = "raised"
    /\ max_retries = 3
    /\ errors_seen = << <<"429", " ", "retry", " ", "in", " ", ".", "s">> >>
    /\ calls_made = 1
    /\ sleeps = <<>>
    /\ raised = "ValueError"

\* C6: a failure that is not a rate-limit failure ends the call at once: it is the last
\* failure seen, the original exception is raised, attempt k was the last attempt and
\* only the k - 1 earlier rate-limited failures were followed by a sleep; a successful
\* attempt returns after one attempt more than the failures before it; once the call
\* has returned or raised, no further step is taken.
C6_NoRetryOnOtherFailure ==
    /\ [](\A k \in 1..Len(errors_seen) :
            ~IsRateLimit(errors_seen[k]) =>
                /\ k = Len(errors_seen)
                /\ rpc = "raised"
                /\ raised = "original"
                /\ calls_made = k
                /\ Len(sleeps) = k - 1)
    /\ [](rpc = "returned" =>
            /\ raised = NULL
            /\ calls_made = Len(errors_seen) + 1
            /\ Len(sleeps) = Len(errors_seen))
    /\ [][~RetryEnded]_vars

\* C6 witness: two rate-limited failures, then a timeout at attempt 3 of 4
C6_Witness ==
    /\ rpc = "raised"
    /\ raised = "original"
    /\ max_retries = 4
    /\ Len(errors_seen) = 3
    /\ errors_seen[3] = <<"timeout">>
    /\ calls_made = 3
    /\ Len(sleeps) = 2

\* the seconds a rate-limit message of the model carries in "retry in <seconds>s",
\* in tenths; 0 when it carries none
EmbeddedDelay(msg) ==
    IF msg = <<"429", " ", "retry", " ", "in", " ", "2", ".", "5", "s">> THEN 25
    ELSE IF msg = <<"Quota Exceeded", " ", "retry", " ", "in", " ", "7", "s">> THEN 70
    ELSE 0

ExpectedWait(msg, k) ==
    IF EmbeddedDelay(msg) # 0 THEN EmbeddedDelay(msg) ELSE 50 * 2 ^ (k - 1)

\* C7 as stated: after the k-th rate-limited failure, k < max_retries, the client
\* waits the delay the message carries, and otherwise 5 * 2^(k-1) seconds.
C7_AsStated ==
    \A k \in 1..Len(errors_seen) :
        (k < max_retries /\ IsRateLimit(errors_seen[k])) =>
            /\ Len(sleeps) >= k
            /\ sleeps[k] = ExpectedWait(errors_seen[k], k)

\* C7, what holds: every wait that takes place has the stated length.
C7_WaitsThatHappen ==
    \A k \in 1..Len(sleeps) :
        /\ k < max_retries
        /\ sleeps[k] = ExpectedWait(errors_seen[k], k)

\* C7, the failing run: the second rate-limited failure of four carries "retry in .s";
\* one wait of 5 seconds has happened, the second never does.
C7_Witness ==
    /\ rpc = "raised"
    /\ max_retries = 4
    /\ Len(errors_seen) = 2
    /\ errors_seen[1] = <<"429", " ", "Resource", " ", "exhausted">>
    /\ errors_seen[2] = <<"429", " ", "retry", " ", "in", " ", ".", "s">>
    /\ sleeps = <<50>>
    /\ raised = "ValueError"

(***************************************************************************)
(* Properties of the chapter pipeline (SpecChapters) and of the chapter    *)
(* gate (SpecGate)                                                         *)
(***************************************************************************)
\* C1: in every state reached through initialize_chapters, generate_chapter,
\* generate_all_chapters and regenerate_chapter, a chapter numbered n > 1 has non-null
\* content only if a chapter numbered n - 1 of the book has non-null content.
C1_ContentNeedsPredecessor ==
    \A i \in 1..Len(chapters) :
        (chapters[i].chapter_number > 1 /\ chapters[i].content # NULL) =>
            \E j \in 1..Len(chapters) :
                /\ chapters[j].chapter_number = chapters[i].chapter_number - 1
                /\ chapters[j].content # NULL

\* C1 witness: chapter 2 was generated by a generate_chapter call, chapter 1 has content
C1_Witness ==
    /\ last.op = "generate_chapter"
    /\ last.n = 2
    /\ last.ok
    /\ Len(chapters) = 2
    /\ chapters[2].chapter_number = 2
    /\ chapters[2].content = "text"
    /\ chapters[1].content = "text"

\* chapter n - 1 exists and has content (a text that is neither null nor empty)
PredecessorHasContent(n) ==
    \E j \in 1..Len(chapters) :
        /\ chapters[j].chapter_number = n - 1
        /\ chapters[j].content \notin {NULL, ""}

OutlineExists == book.outline \notin {NULL, ""}

\* C2: can_generate_chapter(book, n) denies for every n when the book has no outline,
\* denies for every n > 1 when chapter n - 1 is missing or has no content, and for
\* n >= 1 allows exactly when the outline exists and (n = 1 or chapter n - 1 has content).
C2_GateDecision ==
    last.op = "can_generate_chapter" =>
        /\ ~OutlineExists => ~last.ok
        /\ (last.n > 1 /\ ~PredecessorHasContent(last.n)) => ~last.ok
        /\ last.n >= 1 =>
              (last.ok <=> (OutlineExists /\ (last.n = 1 \/ PredecessorHasContent(last.n))))

\* C2 witness: the outline exists, chapter 1 exists with empty content, chapter 2 is denied
C2_Witness ==
    /\ last.op = "can_generate_chapter"
    /\ last.n = 2
    /\ ~last.ok
    /\ last.reason = "previous_incomplete"
    /\ book.outline = "OutDense"
    /\ Len(chapters) = 1
    /\ chapters[1].chapter_number = 1
    /\ chapters[1].content = ""

\* the content a chapter record had before the step (null for a record the step created)
ContentBefore(id) == IF id <= Len(chapters) THEN chapters[id].content ELSE NULL

\* C3: one invocation of generate_all_chapters sends chapters to the generation client in
\* ascending chapter_number, and once it has stopped at a chapter (which must wait for
\* notes, or whose generation failed) no chapter numbered above that chapter is sent to
\* the generation client or has its content changed by the invocation.
C3_NoSkipAhead ==
    [][last'.op = "generate_all_chapters" =>
         /\ \A i, j \in 1..Len(last'.calls) : i < j => last'.calls[i].n <= last'.calls[j].n
         /\ last'.stopped_at # NoStop =>
              /\ \A i \in 1..Len(last'.calls) : last'.calls[i].n <= last'.stopped_at
              /\ \A id \in 1..Len(chapters') :
                    chapters'[id].chapter_number > last'.stopped_at =>
                        chapters'[id].content = ContentBefore(id)]_vars

\* C3 witness: the invocation sent chapter 1 to the generation client, failed there and
\* stopped; chapter 2 is still without content
C3_Witness ==
    /\ last.op = "generate_all_chapters"
    /\ last.stopped_at = 1
    /\ last.reason = "failed_chapters"
    /\ Len(last.calls) >= 1
    /\ last.calls[1].n = 1
    /\ Len(chapters) = 2
    /\ chapters[2].chapter_number = 2
    /\ chapters[2].content = NULL

GateDenial == {"no_outline", "previous_incomplete"}

\* C4 as stated, for the chapter orchestrators: a call of generate_chapter or
\* regenerate_chapter that returns a stage gate denial leaves the book, every chapter
\* record and the audit log as they were before the call.
C4_AsStated ==
    [][(last'.op \in {"generate_chapter", "regenerate_chapter"} /\ last'.reason \in GateDenial)
          => (book' = book /\ chapters' = chapters /\ last'.logged = <<>>)]_vars

\* C4, what holds: a denied generate_chapter call writes nothing.
C4_GenerateChapterDenied ==
    [][(last'.op = "generate_chapter" /\ last'.reason \in GateDenial)
          => (book' = book /\ chapters' = chapters /\ last'.logged = <<>>)]_vars

\* C4, the failing call: regenerate_chapter(book, 2, "fix") while chapter 1 has no
\* content returns the denial, yet chapter 2 holds the notes and the status
\* "regenerating" and the audit log has a new entry.
C4_Witness ==
    /\ last.op = "regenerate_chapter"
    /\ last.n = 2
    /\ ~last.ok
    /\ last.reason = "previous_incomplete"
    /\ last.logged = <<"regeneration_started">>
    /\ Len(chapters) = 2
    /\ chapters[1].content = NULL
    /\ chapters[2].chapter_notes = "fix"
    /\ chapters[2].status = "regenerating"

\* C11: for expected_count >= 1 the returned entries are numbered exactly 1..m with
\* 1 <= m <= expected_count, and when a heading was accepted entry i carries the title
\* of the accepted heading whose parsed number is the i-th smallest: the parsed number
\* orders the entries and is not kept.
C11_RenumberedByParsedOrder ==
    (ppc = "done" /\ expected_count >= 1) =>
        /\ Len(parsed) >= 1
        /\ Len(parsed) <= expected_count
        /\ \A i \in 1..Len(parsed) : parsed[i].number = i
        /\ chapters_acc # <<>> =>
              /\ Len(parsed) = Len(chapters_acc)
              /\ \A i \in 1..Len(parsed) :
                    \E j \in 1..Len(chapters_acc) :
                       /\ parsed[i].title = chapters_acc[j].title
                       /\ Cardinality({k \in 1..Len(chapters_acc) :
                             chapters_acc[k].number < chapters_acc[j].number}) = i - 1

\* C11 witness: headings numbered 3 and 2, in that order, come back as 1 (Basics), 2 (Deep)
C11_Witness ==
    /\ ppc = "done"
    /\ expected_count = 3
    /\ Len(outline_text) = 2
    /\ outline_text[1] =
          <<"CHAPTER", " ", "0", "3", " ", ":", " ", "Deep", " ", "Description:", " ", "more">>
    /\ outline_text[2] = <<"Chapter", " ", "2", ":", " ", "Basics">>
    /\ parsed = << [number |-> 1, title |-> <<"Basics">>],
                   [number |-> 2, title |-> <<"Deep">>] >>

\* C12 as stated: every entry returned from a matched heading line has a cleaned title
\* that is non-empty and is not the placeholder "[chapter title here]".
C12_AsStated ==
    (ppc = "done" /\ chapters_acc # <<>>) =>
        \A i \in 1..Len(parsed) :
            /\ parsed[i].title # <<>>
            /\ \A k \in 1..Len(parsed[i].title) :
                  Lower(parsed[i].title[k]) # "[chapter title here]"

\* C12, what holds: a heading line whose captured title is empty or holds the
\* placeholder is rejected and does not consume its chapter number.
C12_RejectedKeepsNumberFree ==
    [][(ppc = "scan" /\ line_idx <= Len(outline_text)
        /\ HeadingMatch(Strip(outline_text[line_idx]))
        /\ (\E k \in 1..Len(outline_text[line_idx]) :
               Lower(outline_text[line_idx][k]) = "[chapter title here]"))
          => (seen_numbers' = seen_numbers /\ chapters_acc' = chapters_acc)]_vars

\* C12, the failing input: the only heading is "Chapter 2: Description: only"; its title
\* passes the placeholder test, is then cleaned to the empty string and returned
C12_Witness ==
    /\ ppc = "done"
    /\ expected_count = 1
    /\ outline_text = << <<"Chapter", " ", "2", ":", " ", "Description:", " ", "only">> >>
    /\ parsed = << [number |-> 1, title |-> <<>>] >>

\* the numbers of the chapters without content, ascending
LackingContent == {chapters[i].chapter_number : i \in {j \in 1..Len(chapters) :
                        chapters[j].content \in {NULL, ""}}}

\* C13 as stated: can_compile allows exactly when the book has a chapter, every chapter
\* has non-null content and final_review_notes_status is not YES.
C13_AsStated ==
    last.op = "can_compile_final_draft" =>
        (last.ok <=> (/\ chapters # <<>>
                      /\ \A i \in 1..Len(chapters) : chapters[i].content # NULL
                      /\ book.final_review_notes_status # "yes"))

\* C13 (amended): can_compile allows exactly when the book has a chapter, every chapter
\* has content (neither null nor empty) and final_review_notes_status is NO or
\* NO_NOTES_NEEDED (unset, YES and any other value deny); when chapters lack content it
\* denies and the reason lists exactly their numbers, ascending.
C13_CompileGate ==
    last.op = "can_compile_final_draft" =>
        /\ last.ok <=> (/\ chapters # <<>>
                        /\ LackingContent = {}
                        /\ book.final_review_notes_status \in {"no", "no_notes_needed"})
        /\ LackingContent # {} =>
              /\ ~last.ok
              /\ last.reason = "chapters_incomplete"
              /\ Len(last.detail) = Cardinality(LackingContent)
              /\ {last.detail[i] : i \in 1..Len(last.detail)} = LackingContent
              /\ \A i, j \in 1..Len(last.detail) : i < j => last.detail[i] < last.detail[j]

\* C13 witness: chapters 1..3, the first two generated: the denial names chapter 3
C13_Witness ==
    /\ last.op = "can_compile_final_draft"
    /\ ~last.ok
    /\ last.detail = <<3>>
    /\ Len(chapters) = 3
    /\ book.final_review_notes_status = "no_notes_needed"
    /\ \A i \in 1..3 : (chapters[i].content = "text") <=> (chapters[i].chapter_number # 3)

(***************************************************************************)
(* Properties of compilation (SpecCompile)                                 *)
(***************************************************************************)
\* the formats a compile_book call was asked for
AskedFor ==
    IF last.formats = {"None"} \/ "all" \in last.formats
    THEN {"docx", "pdf", "txt"}
    ELSE last.formats \cap {"docx", "pdf", "txt"}

Attempted == {last.attempted[i] : i \in 1..Len(last.attempted)}

Exported == {last.exported[i] : i \in 1..Len(last.exported)}

\* the call passed the gate and no write of the persistence layer failed
CompileRan == last.op = "compile_book" /\ last.reason \in {"compiled", "no_results"}

C15_AsStated ==
    (CompileRan /\ last.attempted # <<>> /\ last.exported = <<>>) =>
        /\ ~last.ok
        /\ book.book_output_status = "error"
        /\ \E i \in 1..Len(last.notified) : last.notified[i] = "error"

\* C15, the failing call: all three exports fail; the call reports failure but the
\* book stays at final_compilation and nothing is notified
C15_Witness ==
    /\ last.op = "compile_book"
    /\ last.reason = "no_results"
    /\ last.attempted = <<"docx", "pdf", "txt">>
    /\ last.exported = <<>>
    /\ ~last.ok
    /\ book.book_output_status = "final_compilation"
    /\ last.notified = <<>>

(***************************************************************************)
(* Hard failures of the chapter pipeline (SpecChapters)                    *)
(***************************************************************************)
\* C16 as stated, for generate_chapter: when the generation call or a persistence
\* write fails after the gate has passed, the call returns failure, the book status
\* ends as error and an error notification is fired.
C16_AsStated ==
    (last.op = "generate_chapter" /\ last.reason = "error") =>
        /\ ~last.ok
        /\ book.book_output_status = "error"
        /\ \E i \in 1..Len(last.notified) : last.notified[i] = "error"

\* C16, what holds for generate_chapter: failure is returned and the status is error.
C16_FailureSetsError ==
    (last.op = "generate_chapter" /\ last.reason = "error") =>
        /\ ~last.ok
        /\ book.book_output_status = "error"

\* C16, the failing call: generate_chapter(book, 1) whose generation call raises ends
\* with status error and no notification
C16_Witness ==
    /\ last.op = "generate_chapter"
    /\ last.n = 1
    /\ last.reason = "error"
    /\ Len(last.calls) = 1
    /\ book.book_output_status = "error"
    /\ last.notified = <<>>

\* before the step, chapters 1..k all exist and every record numbered 1..k has content
GeneratedUpTo(k) ==
    \A n \in 1..k :
        /\ \E i \in 1..Len(chapters) : chapters[i].chapter_number = n
        /\ \A i \in 1..Len(chapters) :
              chapters[i].chapter_number = n => chapters[i].content \notin {NULL, ""}

\* C17: a generate_all_chapters call made when chapters 1..k already have content sends
\* no chapter of 1..k to the generation client and leaves their content and summary
\* unchanged; the first chapter it generates, if it generates any, is chapter k+1 (k the
\* largest such number); when every chapter has content it makes no generation call.
C17_ResumeSkipsGenerated ==
    [][last'.op = "generate_all_chapters" =>
         \A k \in 0..Len(chapters) :
            GeneratedUpTo(k) =>
               /\ \A i \in 1..Len(last'.calls) : last'.calls[i].n > k
               /\ \A i \in 1..Len(chapters) :
                     chapters[i].chapter_number <= k =>
                        /\ chapters'[i].content = chapters[i].content
                        /\ chapters'[i].summary = chapters[i].summary
               /\ (~GeneratedUpTo(k + 1) /\ last'.calls # <<>>) => last'.calls[1].n = k + 1
               /\ (k >= 1 /\ \A i \in 1..Len(chapters) : chapters[i].chapter_number <= k)
                     => last'.calls = <<>>]_vars

\* C17 witness: chapter 1 had been generated; the call made chapter 2 its first
\* generation and generated it
C17_Witness ==
    /\ last.op = "generate_all_chapters"
    /\ last.ok
    /\ Len(last.calls) = 2
    /\ last.calls[1].n = 2
    /\ Len(chapters) = 2
    /\ chapters[1].content = "text"
    /\ chapters[2].content = "text"

\* ---------------------------------------------------------------------------
\* First outline generation
\* ---------------------------------------------------------------------------

\* the step is a generate_outline call that got past its gate
GenerateOutlineRan ==
    /\ last'.op = "generate_outline"
    /\ last'.reason \notin {"notes_before_required", "outline_exists"}

HasNotesBefore == book.notes_on_outline_before \notin {NULL, ""}

HasOutline == book.outline \notin {NULL, ""}

\* C19: generate_outline is let through exactly when the book has non-empty notes
\* written before the outline and no outline; without the notes it is denied for
\* the missing notes, with the notes and an outline it is denied because the outline
\* exists, and a denied call changes nothing; so a stored outline is only ever
\* replaced by a regeneration (called directly or from check_and_proceed).
C19_GenerateOnlyWithoutOutline ==
    [][/\ last'.op = "generate_outline" =>
            /\ ~HasNotesBefore =>
                  /\ last'.reason = "notes_before_required"
                  /\ ~last'.ok /\ last'.calls = <<>> /\ book' = book
            /\ (HasNotesBefore /\ HasOutline) =>
                  /\ last'.reason = "outline_exists"
                  /\ ~last'.ok /\ last'.calls = <<>> /\ book' = book
            /\ (HasNotesBefore /\ ~HasOutline) =>
                  /\ last'.reason \notin {"notes_before_required", "outline_exists"}
                  /\ Len(last'.calls) = 1
       /\ (HasOutline /\ book'.outline # book.outline) =>
            /\ last'.op \in {"regenerate_outline", "check_and_proceed"}
            /\ Len(last'.calls) = 1
            /\ last'.calls[1].kind = "regenerate_outline"]_vars

\* a generate call for a book that already has its outline was denied
C19_Witness ==
    /\ last.op = "generate_outline"
    /\ last.reason = "outline_exists"
    /\ book.outline = "OutDense"
    /\ book.notes_on_outline_before = "notes"

\* ---------------------------------------------------------------------------
\* Regeneration and the editor's feedback
\* ---------------------------------------------------------------------------

\* the book after a regeneration that stored the reply of its generation call
Regenerated(b, reply, status) ==
    [b EXCEPT !.outline = reply, !.notes_on_outline_after = NULL,
              !.book_output_status = status]

\* C20 (as stated): a successful regenerate_outline replaces the outline, sets the
\* status to outline_review and clears the feedback, after which the gate denies a
\* regeneration; a failed one leaves the feedback in place.
C20_AsStated ==
    [][last'.op = "regenerate_outline" =>
          /\ last'.ok =>
                /\ book' = Regenerated(book, last'.calls[1].reply, "outline_review")
                /\ ~can_regenerate_outline(book').ok
          /\ ~last'.ok =>
                book'.notes_on_outline_after = book.notes_on_outline_after]_vars

\* C20 (what the code does): the generation call is made from the stored outline
\* and the feedback; success is as stated, and a regenerate_outline that directly
\* follows a successful one is denied without touching the book; a call that is
\* denied changes nothing, one that fails before the outline is written changes only
\* the status, and one that fails after that write has replaced the outline and
\* cleared the feedback although it reports failure.
C20_FeedbackConsumed ==
    [][last'.op = "regenerate_outline" =>
          /\ last'.calls # <<>> =>
                /\ Len(last'.calls) = 1
                /\ last'.calls[1].original = book.outline
                /\ last'.calls[1].notes = book.notes_on_outline_after
                /\ book.notes_on_outline_after \notin {NULL, ""}
          /\ last'.ok =>
                /\ book' = Regenerated(book, last'.calls[1].reply, "outline_review")
                /\ ~can_regenerate_outline(book').ok
          /\ (last.op = "regenerate_outline" /\ last.ok) =>
                /\ ~last'.ok
                /\ last'.reason \in {"notes_after_required", "no_outline"}
                /\ book' = book
          /\ (~last'.ok /\ last'.calls = <<>>) => book' = book
          /\ (~last'.ok /\ last'.calls # <<>>) =>
                \/ book' = [book EXCEPT !.book_output_status = "error"]
                \/ book' = Regenerated(book, last'.calls[1].reply, "error")]_vars

\* a regeneration made from the editor's feedback reported failure and the
\* feedback is gone
C20_Witness ==
    /\ last.op = "regenerate_outline"
    /\ ~last.ok
    /\ Len(last.calls) = 1
    /\ last.calls[1].notes = "notes"
    /\ book.notes_on_outline_after = NULL
    /\ book.outline = last.calls[1].reply
    /\ book.outline # last.calls[1].original

\* ---------------------------------------------------------------------------
\* check_and_proceed
\* ---------------------------------------------------------------------------

\* what a call reports and leaves behind
Outcome(b, ok, reason, calls, notified) ==
    [book |-> b, ok |-> ok, reason |-> reason, calls |-> calls, notified |-> notified]

OutcomeOf(r) == Outcome(r.book, r.ok, r.reason, r.calls, r.notified)

\* the outcome of the step just taken
StepOutcome == Outcome(book', last'.ok, last'.reason, last'.calls, last'.notified)

\* the status write of check_and_proceed raised: failure reported, nothing changed
StageWriteFailed == StepOutcome = Outcome(book, FALSE, "error", <<>>, <<>>)

\* C21: check_and_proceed acts by the editor's decision on the outline. With
\* no_notes_needed it sets the status to chapter_generation and reports success,
\* without a generation call or a notification; with yes and non-empty feedback its
\* outcome is that of regenerate_outline on the same book; with no it sets the
\* status to paused, fires the paused notification and reports failure with the
\* editor's pause as reason. In the first and last case a status write that raises
\* makes the call report failure with the book unchanged.
C21_ActsByDecision ==
    [][last'.op = "check_and_proceed" =>
          /\ book.status_outline_notes = "no_notes_needed" =>
                \/ StepOutcome =
                     Outcome([book EXCEPT !.book_output_status = "chapter_generation"],
                             TRUE, "ready", <<>>, <<>>)
                \/ StageWriteFailed
          /\ (book.status_outline_notes = "yes"
                /\ book.notes_on_outline_after \notin {NULL, ""}) =>
                \E o \in OutlineReplies, oc \in OutlineOutcomes :
                    StepOutcome = OutcomeOf(regenerate_outline(book, chapters, o, oc))
          /\ book.status_outline_notes = "no" =>
                \/ StepOutcome =
                     Outcome([book EXCEPT !.book_output_status = "paused"],
                             FALSE, "paused_by_editor", <<>>, <<"paused">>)
                \/ StageWriteFailed]_vars

\* check_and_proceed handed over to regenerate_outline, which replaced the outline
C21_Witness ==
    /\ last.op = "check_and_proceed"
    /\ last.ok
    /\ last.reason = "regenerated"
    /\ Len(last.calls) = 1
    /\ last.calls[1].kind = "regenerate_outline"
    /\ book.status_outline_notes = "yes"
    /\ book.book_output_status = "outline_review"

\* the editor asked for changes to the outline and has not written them yet
AwaitingFeedback ==
    /\ book.status_outline_notes = "yes"
    /\ book.notes_on_outline_after \in {NULL, ""}

\* C22 (as stated): with status_outline_notes = yes and no feedback,
\* check_and_proceed reports failure and leaves the book as it was.
C22_AsStated ==
    [][(last'.op = "check_and_proceed" /\ AwaitingFeedback) =>
          /\ ~last'.ok
          /\ book' = book]_vars

\* C22 (what the code does): with status_outline_notes = yes and no feedback,
\* check_and_proceed makes no generation call and reports failure with the waiting
\* reason, and it pauses as it does for the editor's no: the status becomes paused
\* and the paused notification fires; only a status write that raises leaves the
\* book unchanged. An unset or unknown status_outline_notes pauses the same way.
C22_WaitingPauses ==
    [][last'.op = "check_and_proceed" =>
          /\ AwaitingFeedback =>
                \/ StepOutcome =
                     Outcome([book EXCEPT !.book_output_status = "paused"],
                             FALSE, "waiting_for_notes_after", <<>>, <<"paused">>)
                \/ StageWriteFailed
          /\ book.status_outline_notes \in {NULL, "", "other"} =>
                \/ /\ book' = [book EXCEPT !.book_output_status = "paused"]
                   /\ ~last'.ok
                   /\ last'.reason \in {"status_not_set", "invalid_status"}
                   /\ last'.calls = <<>>
                   /\ last'.notified = <<"paused">>
                \/ StageWriteFailed]_vars

\* a check_and_proceed that was waiting for feedback paused a book under review
C22_Witness ==
    /\ last.op = "check_and_proceed"
    /\ last.reason = "waiting_for_notes_after"
    /\ last.notified = <<"paused">>
    /\ book.book_output_status = "paused"
    /\ book.status_outline_notes = "yes"
    /\ book.outline = "OutDense"

\* ---------------------------------------------------------------------------
\* The chapter feedback gate
\* ---------------------------------------------------------------------------

Fired(notified, what) == \E i \in 1..Len(notified) : notified[i] = what

\* the record that stands for chapter n: the first one with that number
RecordOf(chs, n) == chs[FindChapter(chs, n)]

\* the answers the claim gives for chapter n of the chapter table chs
NotesMissing(chs, n) ==
    /\ FindChapter(chs, n) # 0
    /\ RecordOf(chs, n).chapter_notes \in {NULL, ""}

MustWait(chs, n) ==
    \/ book.chapter_notes_status = "yes" /\ NotesMissing(chs, n)
    \/ book.chapter_notes_status \notin {"yes", "no_notes_needed"}

MayGo(chs, n) ==
    \/ book.chapter_notes_status = "no_notes_needed"
    \/ book.chapter_notes_status = "yes" /\ ~NotesMissing(chs, n)

\* the chapter generate_all_chapters comes to first: the first record without content
FirstPending(chs, i) ==
    /\ i \in 1..Len(chs)
    /\ chs[i].content \in {NULL, ""}
    /\ \A j \in 1..(i - 1) : chs[j].content \notin {NULL, ""}

\* C23: in a generate_all_chapters call every chapter for which a generation call
\* is made has the do-not-wait answer (status no_notes_needed, or yes with notes
\* on the chapter's record), and the call stops with the waiting notification
\* exactly at a chapter with the wait answer (status yes without notes on the
\* record, or status no, unset or any other value); the first chapter without
\* content is decided by its answer alone: wait stops the call before any
\* generation call, do-not-wait hands it to generate_chapter.
C23_WaitsForChapterNotes ==
    [][last'.op = "generate_all_chapters" =>
          /\ \A i \in 1..Len(last'.calls) :
                last'.calls[i].kind = "chapter" => MayGo(chapters', last'.calls[i].n)
          /\ Fired(last'.notified, "waiting_for_chapter_notes") =>
                /\ last'.stopped_at # NoStop
                /\ MustWait(chapters', last'.stopped_at)
          /\ \A i \in 1..Len(chapters') :
                FirstPending(get_chapters_by_book(initialize_chapters(book, chapters).chapters), i) =>
                   LET c == get_chapters_by_book(initialize_chapters(book, chapters).chapters)[i]
                   IN /\ MustWait(chapters', c.chapter_number) =>
                            /\ last'.calls = <<>>
                            /\ last'.notified = <<"waiting_for_chapter_notes">>
                            /\ last'.stopped_at = c.chapter_number
                            /\ chapters' = initialize_chapters(book, chapters).chapters
                      /\ MayGo(chapters', c.chapter_number) =>
                            /\ Fired(last'.notified, "waiting_for_chapter_notes")
                                  => last'.stopped_at # c.chapter_number
                            /\ last'.calls # <<>> => last'.calls[1].n = c.chapter_number]_vars

\* with the gate at yes, chapter 1 had notes and was generated; chapter 2 had none
\* and the call stopped there
C23_Witness ==
    /\ last.op = "generate_all_chapters"
    /\ book.chapter_notes_status = "yes"
    /\ Len(last.calls) >= 1
    /\ last.calls[1].n = 1
    /\ last.stopped_at = 2
    /\ last.notified = <<"waiting_for_chapter_notes">>
    /\ Len(chapters) >= 2
    /\ chapters[1].chapter_notes = "fix"
    /\ chapters[2].chapter_notes = NULL

\* ---------------------------------------------------------------------------
\* Chapter regeneration
\* ---------------------------------------------------------------------------

\* the step is a regenerate_chapter call on a chapter that has a record
RegenerateRan ==
    /\ last'.op = "regenerate_chapter"
    /\ FindChapter(chapters, last'.n) # 0

ApprovalRan ==
    /\ response'.op = "approve_chapter"
    /\ response'.approved
    /\ FindChapter(chapters, response'.n) # 0

\* the chapter count the handler compares with: the book's entry in workflow_states,
\* or 10 without an entry
KnownTotal ==
    IF workflow_states.present THEN workflow_states.total_chapters ELSE DEFAULT_TOTAL_CHAPTERS

\* C25: an approve-chapter request with approved = true for an existing chapter is
\* always answered with HTTP 200: status approved and next step "generate chapter
\* n + 1" when n is below the chapter count of the workflow state, else status
\* all_approved and next step final review. The handler makes one summary call;
\* whatever becomes of it, the only thing that can change in the chapter table is
\* this chapter's summary, which is either the generated summary or what it was
\* before (null for a chapter never summarized), and the workflow state changes at
\* most in its ratings.
C25_ApprovalIsBestEffort ==
    [][ApprovalRan =>
          LET n == response'.n
              id == FindChapter(chapters, response'.n)
          IN /\ response'.code = 200
             /\ n < KnownTotal =>
                   /\ response'.status = "approved"
                   /\ response'.next_step = "generate_chapter"
                   /\ response'.next_chapter = n + 1
             /\ n >= KnownTotal =>
                   /\ response'.status = "all_approved"
                   /\ response'.next_step = "final_review"
             /\ Len(response'.calls) = 1
             /\ response'.calls[1].kind = "summary"
             /\ chapters' = [chapters EXCEPT ![id].summary = chapters'[id].summary]
             /\ chapters'[id].summary \in {chapters[id].summary, SummaryOf(chapters[id].content)}
             /\ workflow_states' = [workflow_states EXCEPT !.ratings = workflow_states'.ratings]]_vars

\* chapter 1 of a book with more chapters was approved and its summary is still null
C25_Witness ==
    /\ response.op = "approve_chapter"
    /\ response.approved
    /\ response.n = 1
    /\ response.code = 200
    /\ response.status = "approved"
    /\ response.next_chapter = 2
    /\ Len(response.calls) = 1
    /\ Len(chapters) >= 2
    /\ chapters[1].summary = NULL
    /\ chapters[1].content = "text"

\* ---------------------------------------------------------------------------
\* Context chaining
\* ---------------------------------------------------------------------------

\* the rows numbered below n whose summary is not null
NonNullRows(n) ==
    {i \in 1..Len(chapters) :
        /\ chapters[i].chapter_number < n
        /\ chapters[i].summary # NULL}

\* C26 (as stated): get_context_for_chapter(book, n) returns exactly the non-null
\* summaries of the chapters numbered below n, in ascending order of chapter number.
C26_AsStated ==
    (last.op = "get_context_for_chapter" /\ last.ok) =>
       /\ Len(last.detail) = Cardinality(NonNullRows(last.n))
       /\ \A i \in NonNullRows(last.n) :
             \E p \in 1..Len(last.detail) : last.detail[p] = chapters[i].summary

\* the rows whose summary belongs to the context of chapter n: numbered below n,
\* with a summary that is neither null nor empty
ContextRows(n) ==
    {i \in 1..Len(chapters) :
        /\ chapters[i].chapter_number < n
        /\ chapters[i].summary \notin {NULL, ""}}

\* the place of row i among them, by chapter number
ContextRank(n, i) ==
    1 + Cardinality({j \in ContextRows(n) :
                        chapters[j].chapter_number < chapters[i].chapter_number})

\* C26 (what the code does): get_context_for_chapter(book, n), when the fetch does
\* not raise, returns one
\* entry for every chapter numbered below n that has a summary (neither null nor
\* empty) and nothing else, in ascending order of chapter number, whatever the
\* order of the rows in the table; a fetch that raises yields the empty list.
C26_ContextIsPriorSummaries ==
    last.op = "get_context_for_chapter" =>
       IF last.ok
       THEN /\ Len(last.detail) = Cardinality(ContextRows(last.n))
            /\ \A i \in ContextRows(last.n) :
                  last.detail[ContextRank(last.n, i)] = chapters[i].summary
       ELSE last.detail = <<>>

\* rows stored as chapters 3, 2, 1 with summaries on 1 and 2 and none on 3:
\* the context of chapter 4 is S1, S2
C26_Witness ==
    /\ last.op = "get_context_for_chapter"
    /\ last.ok
    /\ last.n = 4
    /\ Len(chapters) = 3
    /\ chapters[1].chapter_number = 3 /\ chapters[1].summary = NULL
    /\ chapters[2].chapter_number = 2 /\ chapters[2].summary = "S2"
    /\ chapters[3].chapter_number = 1 /\ chapters[3].summary = "S1"
    /\ last.detail = <<"S1", "S2">>

\* the rows rebuild_context_chain has to summarize: content, and no summary
\* (null or empty)
MissingSummary ==
    {i \in 1..Len(chapters) :
        /\ chapters[i].content \notin {NULL, ""}
        /\ chapters[i].summary \in {NULL, ""}}

\* the step is a rebuild_context_chain call that returned its count
RebuildReturned == last'.op = "rebuild_context_chain" /\ last'.ok

\* a rebuild generates for exactly the rows with content and no summary, stores
\* what was generated, returns their number and touches nothing else
RebuildFills ==
    RebuildReturned =>
       /\ last'.detail = <<Cardinality(MissingSummary)>>
       /\ Len(last'.calls) = Cardinality(MissingSummary)
       /\ \A p \in 1..Len(last'.calls) :
             /\ last'.calls[p].kind = "summary"
             /\ \E i \in MissingSummary : chapters[i].chapter_number = last'.calls[p].n
       /\ \A i \in MissingSummary :
             /\ chapters'[i].summary \in {"", SummaryText(chapters[i].chapter_number)}
             /\ chapters'[i] = [chapters[i] EXCEPT !.summary = chapters'[i].summary]
       /\ \A i \in (1..Len(chapters)) \ MissingSummary : chapters'[i] = chapters[i]
       /\ Len(chapters') = Len(chapters)

C28_AsStated ==
    [][book.book_output_status = "completed" =>
          book'.book_output_status = "completed"]_vars

\* a completed book whose chapter 1 passes the gate of generate_chapter: the next
\* generate_chapter(book, 1) moves it back to chapter_generation
C28_Witness ==
    /\ book.book_output_status = "completed"
    /\ last.op = "compile_book"
    /\ last.ok
    /\ can_generate_chapter(book, chapters, 1).ok
    /\ FindChapter(chapters, 1) # 0
    /\ generate_chapter(book, chapters, 1, "ok").book.book_output_status = "chapter_generation"

\* the book is in one of the two statuses a failure or a pause leaves behind
Halted == book.book_output_status \in {"error", "paused"}

\* the conditions the gates of the outline stage test, read from the book
MayGenerateOutline == HasNotesBefore /\ ~HasOutline

MayRegenerateOutline == HasOutline /\ book.notes_on_outline_after \notin {NULL, ""}

\* C29: error and paused do not block a retry. For a book whose status is error or
\* paused, an operation whose gate conditions hold is let through to its generation
\* call or its exports, and when it reports success the status is the one the
\* operation leaves on any other book: outline_review after generate_outline and
\* regenerate_outline, chapter_generation after generate_chapter and
\* regenerate_chapter, completed after compile_book, chapter_generation (or
\* outline_review, through a regeneration) after check_and_proceed.
C29_RetryAfterErrorOrPause ==
    [][Halted =>
          /\ (last'.op = "generate_outline") =>
                /\ (MayGenerateOutline => Len(last'.calls) = 1)
                /\ (last'.ok => book'.book_output_status = "outline_review")
          /\ (last'.op = "regenerate_outline") =>
                /\ (MayRegenerateOutline => Len(last'.calls) = 1)
                /\ (last'.ok => book'.book_output_status = "outline_review")
          /\ (last'.op = "check_and_proceed") =>
                (last'.ok => book'.book_output_status \in {"chapter_generation", "outline_review"})
          /\ (last'.op \in {"generate_chapter", "regenerate_chapter"}) =>
                /\ ((can_generate_chapter(book, chapters, last'.n).ok
                       /\ FindChapter(chapters, last'.n) # 0) => last'.calls # <<>>)
                /\ (last'.ok => book'.book_output_status = "chapter_generation")
          /\ (last'.op = "compile_book") =>
                /\ (can_compile_final_draft(book, chapters).ok =>
                       last'.reason \in {"compiled", "no_results", "no_chapters", "error"})
                /\ (last'.ok => book'.book_output_status = "completed")]_vars

\* generate_outline failed and left the book in error without an outline: the
\* gate of a second generate_outline holds and a second call that succeeds leaves
\* the book in outline_review
C29_Witness ==
    /\ book.book_output_status = "error"
    /\ last.op = "generate_outline"
    /\ ~last.ok
    /\ Len(last.calls) = 1
    /\ book.outline = NULL
    /\ book.notes_on_outline_before = "notes"
    /\ generate_outline(book, chapters, "OutDense", "ok").ok
    /\ generate_outline(book, chapters, "OutDense", "ok").book.book_output_status
          = "outline_review"

\* outline_review and the stages that follow it
FromOutlineReview ==
    {"outline_review", "chapter_generation", "chapter_review", "final_compilation",
     "completed"}

\* C30, as stated: whenever the book status is outline_review or a later stage, the
\* book has a non-empty outline.
C30_AsStated ==
    book.book_output_status \in FromOutlineReview => book.outline \notin {NULL, ""}

\* check_and_proceed has just moved a book that never had an outline to
\* chapter_generation, because its status_outline_notes is no_notes_needed
C30_Witness ==
    /\ last.op = "check_and_proceed"
    /\ last.ok
    /\ book.status_outline_notes = "no_notes_needed"
    /\ book.book_output_status = "chapter_generation"
    /\ book.outline = NULL
    /\ chapters = <<>>

\* C31, as stated: a chapter that has a summary has content and is approved.
C31_AsStated ==
    \A i \in 1..Len(chapters) :
       chapters[i].summary # NULL =>
          chapters[i].content # NULL /\ chapters[i].status = "approved"

\* generate_chapter has just stored content and summary of a chapter that it left
\* in review: no approval has been given
C31_Witness ==
    /\ last.op = "generate_chapter"
    /\ last.ok
    /\ FindChapter(chapters, last.n) # 0
    /\ chapters[FindChapter(chapters, last.n)].summary = "summary"
    /\ chapters[FindChapter(chapters, last.n)].content = "text"
    /\ chapters[FindChapter(chapters, last.n)].status = "review"

\* the chapter numbers of the table, as a set
ChapterNumbers == {chapters[i].chapter_number : i \in 1..Len(chapters)}

\* C32, as stated: the chapter records of the book carry pairwise distinct numbers
\* that form the range 1..N.
C32_AsStated ==
    /\ \A i, j \in 1..Len(chapters) :
          chapters[i].chapter_number = chapters[j].chapter_number => i = j
    /\ ChapterNumbers = 1..Len(chapters)

\* initialize_chapters has just created the records of an outline whose headings
\* repeat number 1 and skip number 2
C32_Witness ==
    /\ last.op = "initialize_chapters"
    /\ last.ok
    /\ Len(chapters) = 3
    /\ chapters[1].chapter_number = 1
    /\ chapters[2].chapter_number = 1
    /\ 2 \notin ChapterNumbers

\* some record numbered k holds content
HoldsContent(k) ==
    \E i \in 1..Len(chapters) :
       chapters[i].chapter_number = k /\ Truthy(chapters[i].content)

\* C33, as stated: through the generate-chapter endpoint too, content is never stored
\* for a chapter n > 1 while chapter n - 1 has no content.
C33_AsStated ==
    \A i \in 1..Len(chapters) :
       (Truthy(chapters[i].content) /\ chapters[i].chapter_number > 1) =>
          HoldsContent(chapters[i].chapter_number - 1)

\* the endpoint has just answered 200 for chapter 2 and stored its content, and the
\* book has no record for chapter 1
C33_Witness ==
    /\ response.op = "generate_chapter"
    /\ response.code = 200
    /\ response.n = 2
    /\ HoldsContent(2)
    /\ FindChapter(chapters, 1) = 0
    /\ workflow_states.step = "chapter_generation"

\* chapters_approved of the status response for the tables given
ChaptersApproved(ws, chs) == get_status(ws, chs).body[1].chapters_approved

\* the approve-chapter request just answered was answered "approved"
AnsweredApproved(r) ==
    /\ r.op = "approve_chapter"
    /\ r.code = 200
    /\ r.status \in {"approved", "all_approved"}

\* C34, as stated: chapters_approved of the status response counts every chapter for
\* which approve-chapter returned approved, so an approval of a chapter not counted
\* so far raises it by one, also when the summary generation failed.
C34_AsStated ==
    [][(/\ AnsweredApproved(response')
        /\ FindChapter(chapters, response'.n) # 0
        /\ ~Truthy(chapters[FindChapter(chapters, response'.n)].summary))
         => ChaptersApproved(workflow_states', chapters')
               = ChaptersApproved(workflow_states, chapters) + 1]_vars

\* approve-chapter has just answered approved for chapter 1, whose summary generation
\* failed: the status response counts no approved chapter
C34_Witness ==
    /\ AnsweredApproved(response)
    /\ response.n = 1
    /\ response.calls # <<>>
    /\ FindChapter(chapters, 1) # 0
    /\ chapters[FindChapter(chapters, 1)].summary = NULL
    /\ ChaptersApproved(workflow_states, chapters) = 0

\* C35, as stated: the generate-chapter endpoint generates only while the workflow
\* step is chapter_generation or chapter_review, and once generate-outline or
\* regenerate-outline has stored an outline the step allows no chapter generation
\* until the outline is approved again.
C35_AsStated ==
    [][/\ (response'.op = "generate_chapter" /\ response'.calls # <<>>)
             => StepAllowsChapters(workflow_states)
       /\ (response'.op \in {"generate_outline", "regenerate_outline"}
             /\ response'.code = 200)
             => ~StepAllowsChapters(workflow_states')]_vars

\* regenerate-outline has just replaced the approved outline, and a generate-chapter
\* request is still accepted
C35_Witness ==
    /\ response.op = "regenerate_outline"
    /\ response.code = 200
    /\ book.outline = "OutGap"
    /\ workflow_states.step = "chapter_generation"
    /\ api_generate_chapter(book, workflow_states, chapters, 1, "ok").response.code = 200

\* C36, as stated: a generate_chapter call that returns failure leaves content,
\* summary and status of chapter n as they were.
C36_AsStated ==
    [][(last'.op = "generate_chapter" /\ ~last'.ok /\ FindChapter(chapters, last'.n) # 0)
         => LET id == FindChapter(chapters, last'.n)
            IN /\ chapters'[id].content = chapters[id].content
               /\ chapters'[id].summary = chapters[id].summary
               /\ chapters'[id].status = chapters[id].status]_vars

\* generate_chapter has just failed in its generation call: chapter 1 has no content
\* and is left in status generating
C36_Witness ==
    /\ last.op = "generate_chapter"
    /\ ~last.ok
    /\ last.n = 1
    /\ last.reason = "error"
    /\ Len(last.calls) = 1
    /\ FindChapter(chapters, 1) # 0
    /\ chapters[FindChapter(chapters, 1)].status = "generating"
    /\ chapters[FindChapter(chapters, 1)].content = NULL

\* C37: through the outline, chapter and compilation workflows, a book whose status
\* is completed has at least one chapter and no chapter without content; and the
\* status turns completed only in a compile_book call that succeeds, which wrote
\* final_compilation first (the same call with no export that works ends there).
C37_CompletedMeansCompiled ==
    [][/\ book'.book_output_status = "completed" =>
             /\ Len(chapters') >= 1
             /\ \A i \in 1..Len(chapters') : chapters'[i].content # NULL
       /\ (book'.book_output_status = "completed" /\ book.book_output_status # "completed") =>
             /\ last'.op = "compile_book"
             /\ last'.ok
             /\ compile_book(book, chapters, last'.formats, {}, "ok").book.book_output_status
                   = "final_compilation"]_vars

\* compile_book has just completed a book of two chapters with content
C37_Witness ==
    /\ book.book_output_status = "completed"
    /\ last.op = "compile_book"
    /\ last.ok
    /\ Len(chapters) = 2
    /\ \A i \in 1..Len(chapters) : chapters[i].content = "text"
    /\ last.exported # <<>>

\* every chapter record holds content and the book is in final_compilation
ChaptersAllGenerated ==
    /\ chapters # <<>>
    /\ \A i \in 1..Len(chapters) : Truthy(chapters[i].content)
    /\ book.book_output_status = "final_compilation"

\* C38, as stated: with generate_all_chapters called again after every failure and
\* generation calls that eventually succeed, every chapter record of the book gets
\* content and the book reaches final_compilation.
C38_AsStated == <>ChaptersAllGenerated

\* C38, in the form a finite run refutes: a run of generate_all_chapters in which no
\* call raises is deterministic, so if the claim holds then in every reachable state
\* short of the goal such a run changes the book or its chapter records; a state it
\* leaves as it is, is a state the repeated runs never leave.
C38_CleanRunProgresses ==
    \/ ChaptersAllGenerated
    \/ \E r \in {generate_all_chapters(book, chapters, 0, "llm_error")} :
           r.book # book \/ r.chapters # chapters

\* generate_all_chapters has just failed on chapter 3 of a book whose records are
\* numbered 1, 1, 3, with no generation call raising: the second record numbered 1
\* has no content and chapter 3 is refused for its missing predecessor
C38_Witness ==
    /\ last.op = "generate_all_chapters"
    /\ ~last.ok
    /\ Len(chapters) = 3
    /\ chapters[2].chapter_number = 1
    /\ chapters[2].content = NULL
    /\ ~can_generate_chapter(book, chapters, 3).ok
    /\ generate_all_chapters(book, chapters, 0, "llm_error").chapters = chapters
    /\ generate_all_chapters(book, chapters, 0, "llm_error").book = book
    /\ ~generate_all_chapters(book, chapters, 0, "llm_error").ok

\* the invocation has passed can_generate_outline and has not returned yet
PastGate(r) == r.pc \in {"passed", "call", "persist", "log", "except"}

\* C39, as stated: while two calls of generate_outline for one book interleave, at
\* most one of them is past can_generate_outline at any time, and an outline that
\* is stored is never replaced by a generate_outline call.
C39_AsStated ==
    [][/\ Cardinality({i \in Invocations : PastGate(runs'[i])}) <= 1
       /\ Truthy(book.outline) => book'.outline = book.outline]_vars

\* both invocations have returned success, each after a generation call of its own,
\* and the stored outline is the one of the invocation that wrote last
C39_Witness ==
    /\ \A i \in Invocations : runs[i].pc = "returned" /\ runs[i].ok
    /\ runs[1].outline = "OutDense"
    /\ runs[2].outline = "OutGap"
    /\ book.outline = "OutGap"

\* the line "Chapter j Summary: text" carries the summary stored for chapter j
LabelledRight(line) ==
    \E k \in 1..Len(chapters) :
        /\ chapters[k].chapter_number = line.label
        /\ chapters[k].summary = line.summary

\* C40, as stated: in the prompt for chapter n every prior summary stands under the
\* number of the chapter it summarizes, also when chapters below n have no summary
\* and are left out of the context.
C40_AsStated ==
    (last.op = "get_context_for_chapter" /\ last.ok) =>
        \A i \in 1..Len(last.detail) : LabelledRight(ContextSection(last.detail)[i])

\* the context for chapter 3 of a book whose chapter 1 has content and no summary
\* and whose chapter 2 is summarized: the one line of the section is labelled 1
C40_Witness ==
    /\ last.op = "get_context_for_chapter"
    /\ last.ok
    /\ last.n = 3
    /\ \E k \in 1..Len(chapters) :
          /\ chapters[k].chapter_number = 1
          /\ chapters[k].content = "text"
          /\ chapters[k].summary = NULL
    /\ last.detail = <<SummaryText(2)>>
    /\ ContextSection(last.detail)[1].label = 1

====
